---- MODULE Spec2Model ----
(***************************************************************************)
(* A model of pyIATI's Rulesets (iati/core/rulesets.py): the construction  *)
(* of a Ruleset from a JSON string, the construction of a Rule from an     *)
(* XPath base and a case, and the evaluation of a Rule against a dataset   *)
(* tree; of the version numbers of iati/versions.py; and of the default     *)
(* Codelists and Schemas of iati/core/default.py with their caches.        *)
(*                                                                         *)
(* A JSON text is modelled by the objects it writes down: an object is the *)
(* sequence of its (key, value) pairs in the order written, which is what  *)
(* json.loads hands to its object_pairs_hook, so a text may repeat a key.  *)
(* A Python dict is such a sequence with distinct keys (insertion order).  *)
(***************************************************************************)
EXTENDS Integers, Sequences, FiniteSets, TLC

VARIABLES
    pc,         \* "start" | "constructed" | "failed" | "evaluated" | "extracted"
    call,       \* the construction requested: a Ruleset, a Rule or a Version, with its arguments
    ruleset,    \* the Ruleset object the constructor returned (or the exception raised)
    rule,       \* the Rule object the constructor returned (or the exception raised)
    tree,       \* the arguments of the last is_valid_for call (a sequence of 0 or 1 trees)
    result,     \* what the last is_valid_for call returned or raised
    argument,   \* the argument of Version(version_string)
    version,    \* the Version object the constructor returned (or the exception raised)
    relative_path, \* the argument of the last _extract_xpath_case call
    full_path,  \* what the last _extract_xpath_case call returned
    _CODELISTS, \* default.py's cache of Codelists: version -> name -> Codelist
    _SCHEMAS,   \* default.py's cache of Schemas: version -> population key -> root -> Schema
    heap,       \* the Codelist and Schema objects made so far; an object is known by its index
    handles,    \* the objects default.py has handed to its callers
    last,       \* the last call made to default.py (or change made by a caller) and its outcome
    calls,      \* the number of such calls and changes so far
    meta_schema \* the Ruleset meta-schema dict that the default-data provider handed
                \* out last, as its callers left it: for each rule type, the `required`
                \* of its cases/items

rulesVars == <<pc, call, ruleset, rule, tree, result, argument, version, relative_path, full_path>>
defaultVars == <<_CODELISTS, _SCHEMAS, heap, handles, last, calls>>
schemaVars == <<meta_schema>>
vars == <<pc, call, ruleset, rule, tree, result, argument, version, relative_path, full_path,
          _CODELISTS, _SCHEMAS, heap, handles, last, calls, meta_schema>>

(***************************************************************************)
(* Bounds of the model.                                                    *)
(***************************************************************************)
\* The longest `cases` list of a Ruleset text.
MaxCases == 2
\* The most nodes of a dataset tree, over all its base elements.
MaxNodes == 2
\* The longest string handed to Version.
MaxVersionLen == 5
\* The most calls to default.py, changes by its callers included.
MaxCalls == 4

(***************************************************************************)
(* JSON values of a case: a string, a number or a list of strings.         *)
(***************************************************************************)
StrV(s) == [kind |-> "str", s |-> s, n |-> 0, l |-> <<>>]
NumV(n) == [kind |-> "num", s |-> "", n |-> n, l |-> <<>>]
ListV(l) == [kind |-> "list", s |-> "", n |-> 0, l |-> l]

Pair(k, v) == [k |-> k, v |-> v]

\* A call that returns a value or raises: [ok, exc, val].
Returned(v) == [ok |-> TRUE, exc |-> "", val |-> v]
Raised(e) == [ok |-> FALSE, exc |-> e, val |-> <<>>]

\* dict operations on a sequence of pairs with distinct keys; d[k] raises
\* KeyError for a key that is not there
Keys(d) == {d[i].k : i \in DOMAIN d}
Has(d, k) == k \in Keys(d)
Get(d, k) ==
    IF Has(d, k) THEN Returned(d[CHOOSE i \in DOMAIN d : d[i].k = k].v)
    ELSE Raised("KeyError")

RECURSIVE Concat(_)
Concat(ss) == IF ss = <<>> THEN <<>> ELSE Head(ss) \o Concat(Tail(ss))

SeqsUpTo(S, n) == UNION {[1..m -> S] : m \in 0..n}

(***************************************************************************)
(* rulesets.py line 20 and lines 39-49: the rule types and the registry.   *)
(***************************************************************************)
_VALID_RULE_TYPES ==
    {"no_more_than_one", "atleast_one", "dependent", "sum", "date_order",
     "regex_matches", "regex_no_matches", "startswith", "unique"}

\* A variant of the registry in which the two regex names are registered for each
\* other's class.
possible_rule_types_regex_swapped ==
    [t \in _VALID_RULE_TYPES |->
        CASE t = "atleast_one" -> "RuleAtLeastOne"
          [] t = "date_order" -> "RuleDateOrder"
          [] t = "dependent" -> "RuleDependent"
          [] t = "no_more_than_one" -> "RuleNoMoreThanOne"
          [] t = "regex_matches" -> "RuleRegexNoMatches"
          [] t = "regex_no_matches" -> "RuleRegexMatches"
          [] t = "startswith" -> "RuleStartsWith"
          [] t = "sum" -> "RuleSum"
          [] t = "unique" -> "RuleUnique"]

possible_rule_types ==
    [t \in _VALID_RULE_TYPES |->
        CASE t = "atleast_one" -> "RuleAtLeastOne"
          [] t = "date_order" -> "RuleDateOrder"
          [] t = "dependent" -> "RuleDependent"
          [] t = "no_more_than_one" -> "RuleNoMoreThanOne"
          [] t = "regex_matches" -> "RuleRegexMatches"
          [] t = "regex_no_matches" -> "RuleRegexNoMatches"
          [] t = "startswith" -> "RuleStartsWith"
          [] t = "sum" -> "RuleSum"
          [] t = "unique" -> "RuleUnique"]

\* locate_constructor_for_rule_type: the class registered for rule_type, or KeyError.
locate_constructor_for_rule_type(rule_type) ==
    IF rule_type \in DOMAIN possible_rule_types
    THEN Returned(possible_rule_types[rule_type])
    ELSE Raised("KeyError")

\* The `name` each class's __init__ sets before calling Rule.__init__; the base
\* class Rule sets none.
NoName == "<unset>"
ClassName(cls) ==
    CASE cls = "RuleNoMoreThanOne" -> "no_more_than_one"
      [] cls = "RuleAtLeastOne" -> "atleast_one"
      [] cls = "RuleDateOrder" -> "date_order"
      [] cls = "RuleDependent" -> "dependent"
      [] cls = "RuleRegexMatches" -> "regex_matches"
      [] cls = "RuleRegexNoMatches" -> "regex_no_matches"
      [] cls = "RuleStartsWith" -> "startswith"
      [] cls = "RuleSum" -> "sum"
      [] cls = "RuleUnique" -> "unique"
      \* a subclass written after the pattern of the nine, outside the module, that
      \* sets a name the meta-schema does not hold
      [] cls = "RuleUnregistered" -> "unregistered"
      [] OTHER -> NoName

Classes == {possible_rule_types[t] : t \in _VALID_RULE_TYPES} \cup {"Rule"}

(***************************************************************************)
(* The Ruleset meta-schema that iati.core.default.ruleset_schema() returns *)
(* (a resource outside rulesets.py): under patternProperties/".+" /        *)
(* properties, one entry per rule type, whose cases/items declares the     *)
(* case's properties, none of them required.                               *)
(***************************************************************************)
SchemaCaseProperties(name) ==
    CASE name \in {"no_more_than_one", "atleast_one", "dependent", "unique", "date_order"}
            -> {"condition", "paths"}
      [] name = "sum" -> {"condition", "paths", "sum"}
      [] name \in {"regex_matches", "regex_no_matches"} -> {"condition", "paths", "regex"}
      [] name = "startswith" -> {"condition", "paths", "start"}

SchemaPropertyType(key) ==
    CASE key = "paths" -> "list"
      [] key = "sum" -> "num"
      [] OTHER -> "str"

\* The `required` of each rule type's cases/items in the meta-schema as the
\* resource declares it: none.
RulesetSchemaResource == [t \in _VALID_RULE_TYPES |-> {}]

\* iati.core.default.ruleset_schema(): the dict a call returns. Whether the
\* provider parses the resource at every call or keeps the dict it parsed is not
\* known (`keeps`): a provider that keeps it returns the dict it handed out
\* last, as its callers left it.
ruleset_schema(keeps, handed_out) == IF keeps THEN handed_out ELSE RulesetSchemaResource

\* jsonschema.validate(case, section): every required key is there, and every
\* declared property that is there has its declared type.
jsonschema_validate(case, section) ==
    /\ \A k \in section.required : Has(case, k)
    /\ \A i \in DOMAIN case :
          case[i].k \in section.properties => case[i].v.kind = SchemaPropertyType(case[i].k)

(***************************************************************************)
(* class Rule (rulesets.py lines 101-172).                                 *)
(***************************************************************************)
\* A variant of line 165 that forgets to leave `condition` out.
Rule__ruleset_schema_section_all_required(name) ==
    IF name = NoName THEN Raised("AttributeError")
    ELSE IF name \notin _VALID_RULE_TYPES THEN Raised("KeyError")
    ELSE Returned([properties |-> SchemaCaseProperties(name),
                   required |-> SchemaCaseProperties(name)])

\* Rule._ruleset_schema_section: the part of the meta-schema for the Rule's name,
\* with every declared property but `condition` made required. Reading self.name
\* raises AttributeError when no subclass set it; the lookup raises KeyError for a
\* name the meta-schema does not hold.
Rule__ruleset_schema_section(name) ==
    IF name = NoName THEN Raised("AttributeError")
    ELSE IF name \notin _VALID_RULE_TYPES THEN Raised("KeyError")
    ELSE Returned([properties |-> SchemaCaseProperties(name),
                   required |-> {key \in SchemaCaseProperties(name) : key # "condition"}])

\* What lines 163-165 leave of the dict that ruleset_schema() returned
\* (`document`): partial_schema is the section within that dict, and line 165
\* assigns `required` into it, after line 164 has read self.name and looked the
\* section up.
Rule__ruleset_schema_section_assigns(name, document) ==
    IF ~Rule__ruleset_schema_section(name).ok THEN document
    ELSE [document EXCEPT ![name] = Rule__ruleset_schema_section(name).val.required]

\* Rule._valid_rule_configuration: "" when the case is valid, else the exception.
Rule__valid_rule_configuration(name, case) ==
    LET section == Rule__ruleset_schema_section(name)
    IN  IF ~section.ok THEN section.exc
        ELSE IF ~jsonschema_validate(case, section.val) THEN "ValueError"
        ELSE ""

NoRule == [id |-> 0, cls |-> "", name |-> NoName, xpath_base |-> "", case |-> <<>>]

\* cls(xpath_base, case): the subclass's __init__ sets self.name, then Rule.__init__
\* stores case and xpath_base and validates the case. `id` is the identity of the
\* new object.
Rule___init__(cls, xpath_base, case, id) ==
    LET exc == Rule__valid_rule_configuration(ClassName(cls), case)
    IN  IF exc # "" THEN [ok |-> FALSE, exc |-> exc, val |-> NoRule]
        ELSE [ok |-> TRUE, exc |-> "",
              val |-> [id |-> id, cls |-> cls, name |-> ClassName(cls),
                       xpath_base |-> xpath_base, case |-> case]]

\* Rule defines neither __eq__ nor __hash__: two Rules are equal iff they are the
\* same object.
Rule___eq__(a, b) == a.id = b.id

\* set.add
set_add(s, x) == IF \E y \in s : Rule___eq__(y, x) THEN s ELSE s \cup {x}

\* A variant of _extract_xpath_case that writes no separator before an empty path.
Rule__extract_xpath_case_no_empty_step(r, path) ==
    IF path = "" THEN r.xpath_base ELSE r.xpath_base \o "/" \o path

\* Rule._extract_xpath_case
Rule__extract_xpath_case(r, path) == r.xpath_base \o "/" \o path

(***************************************************************************)
(* json.loads(text, object_pairs_hook=hook): every object of the text, the *)
(* innermost first, is handed to the hook as its list of pairs. A Ruleset  *)
(* text nests four levels of objects: XPath bases, rule types, the `cases` *)
(* wrapper and the cases.                                                  *)
(***************************************************************************)
HasDuplicateKey(pairs) ==
    \E i, j \in DOMAIN pairs : i < j /\ pairs[i].k = pairs[j].k

\* iati.core.utilities.dict_raise_on_duplicates (named at rulesets.py line 76)
dict_raise_on_duplicates(pairs) ==
    IF HasDuplicateKey(pairs) THEN Raised("DuplicateKeyError") ELSE Returned(pairs)

\* dict(pairs): a repeated key keeps its first place and its last value
RECURSIVE DictFrom(_, _, _)
DictFrom(pairs, i, acc) ==
    IF i > Len(pairs) THEN acc
    ELSE IF Has(acc, pairs[i].k)
         THEN DictFrom(pairs, i + 1,
                  [j \in DOMAIN acc |-> IF acc[j].k = pairs[i].k THEN pairs[i] ELSE acc[j]])
         ELSE DictFrom(pairs, i + 1, Append(acc, pairs[i]))

dict(pairs) == Returned(DictFrom(pairs, 1, <<>>))

ApplyHook(hook, pairs) ==
    IF hook = "dict_raise_on_duplicates" THEN dict_raise_on_duplicates(pairs) ELSE dict(pairs)

\* an object whose values are lists of objects already loaded
LoadListsObject(hook, obj, loaded) ==
    IF \E i \in DOMAIN obj : \E j \in DOMAIN obj[i].v : ~loaded[i][j].ok
    THEN Raised("DuplicateKeyError")
    ELSE ApplyHook(hook, [i \in DOMAIN obj |->
                            Pair(obj[i].k, [j \in DOMAIN obj[i].v |-> loaded[i][j].val])])

\* an object whose values are objects already loaded
LoadObject(hook, obj, loaded) ==
    IF \E i \in DOMAIN obj : ~loaded[i].ok
    THEN Raised("DuplicateKeyError")
    ELSE ApplyHook(hook, [i \in DOMAIN obj |-> Pair(obj[i].k, loaded[i].val)])

LoadCasesObject(hook, obj) ==
    LoadListsObject(hook, obj,
        [i \in DOMAIN obj |-> [j \in DOMAIN obj[i].v |-> ApplyHook(hook, obj[i].v[j])]])

LoadRuleObject(hook, obj) ==
    LoadObject(hook, obj, [i \in DOMAIN obj |-> LoadCasesObject(hook, obj[i].v)])

json_loads(text, hook) ==
    LoadObject(hook, text, [i \in DOMAIN text |-> LoadRuleObject(hook, text[i].v)])

(***************************************************************************)
(* class Ruleset (rulesets.py lines 54-98).                                *)
(***************************************************************************)
\* A variant of line 76 that leaves the hook out: plain json.loads.
Ruleset_loads_without_hook(ruleset_str) == json_loads(ruleset_str, "dict")

\* line 76: the text is parsed with the duplicate-rejecting hook
Ruleset_loads(ruleset_str) == json_loads(ruleset_str, "dict_raise_on_duplicates")

\* Ruleset.validate_ruleset: the whole definition against the meta-schema; a
\* jsonschema.ValidationError becomes ValueError. The meta-schema constrains the
\* entries of the rule types it declares.
jsonschema_validate_ruleset(definition, document) ==
    \A b \in DOMAIN definition : \A t \in DOMAIN definition[b].v :
         definition[b].v[t].k \in _VALID_RULE_TYPES =>
            /\ Has(definition[b].v[t].v, "cases")
            /\ \A c \in DOMAIN Get(definition[b].v[t].v, "cases").val :
                  jsonschema_validate(Get(definition[b].v[t].v, "cases").val[c],
                      [properties |-> SchemaCaseProperties(definition[b].v[t].k),
                       required |-> document[definition[b].v[t].k]])

Ruleset_validate_ruleset(definition, document) ==
    IF jsonschema_validate_ruleset(definition, document) THEN "" ELSE "ValueError"

\* The turns of the loops of set_rules in the order it meets them: a turn is an
\* (xpath_base, rule_type, case) triple handed to a constructor (lines 94-96) or,
\* for a rule type object without `cases`, the lookup of line 93 that raises
\* KeyError (exc).
CaseTriples(xpath_base, rule_type, cases) ==
    [c \in DOMAIN cases |->
        [xpath_base |-> xpath_base, rule_type |-> rule_type, case |-> cases[c], exc |-> ""]]

TypeTriples(xpath_base, rule_obj) ==
    LET turns(rule_type, cases) ==
            IF ~cases.ok
            THEN <<[xpath_base |-> xpath_base, rule_type |-> rule_type, case |-> <<>>,
                    exc |-> cases.exc]>>
            ELSE CaseTriples(xpath_base, rule_type, cases.val)
    IN  Concat([t \in DOMAIN rule_obj |-> turns(rule_obj[t].k, Get(rule_obj[t].v, "cases"))])

Triples(definition) ==
    Concat([b \in DOMAIN definition |-> TypeTriples(definition[b].k, definition[b].v)])

\* One turn of the loops of set_rules (lines 93-95).
NewRule(triple, id) ==
    LET constructor == locate_constructor_for_rule_type(triple.rule_type)
    IN  IF triple.exc # "" THEN [ok |-> FALSE, exc |-> triple.exc, val |-> NoRule]
        ELSE IF ~constructor.ok THEN [ok |-> FALSE, exc |-> constructor.exc, val |-> NoRule]
        ELSE Rule___init__(constructor.val, triple.xpath_base, triple.case, id)

\* `made` is the number of Rules constructed for this Ruleset before the call;
\* the identity of a new Rule is its number among all of them.
RECURSIVE AddRules(_, _, _, _)
AddRules(triples, i, rules, made) ==
    IF i > Len(triples) THEN [exc |-> "", rules |-> rules, constructed |-> i - 1]
    ELSE LET new_rule == NewRule(triples[i], made + i)
         IN  IF ~new_rule.ok
             THEN [exc |-> new_rule.exc, rules |-> rules,
                   constructed |->
                       IF /\ triples[i].exc = ""
                          /\ locate_constructor_for_rule_type(triples[i].rule_type).ok
                       THEN i ELSE i - 1]
             ELSE AddRules(triples, i + 1, set_add(rules, new_rule.val), made)

\* The dict the provider handed out last, after the first n constructor calls of
\* set_rules: each of them calls the provider (line 163) and assigns into the dict
\* it is given (line 165). `document` is the dict handed out before them.
RECURSIVE AfterRules(_, _, _, _)
AfterRules(triples, n, document, keeps) ==
    IF n = 0 THEN document
    ELSE Rule__ruleset_schema_section_assigns(
             ClassName(locate_constructor_for_rule_type(triples[n].rule_type).val),
             ruleset_schema(keeps, AfterRules(triples, n - 1, document, keeps)))

\* Ruleset.set_rules as __init__ calls it, after self.rules = set()
Ruleset_set_rules(definition) == AddRules(Triples(definition), 1, {}, 0)

\* `constructed` counts the calls of Rule constructors that __init__ made.
NoRuleset == [status |-> "none", ruleset |-> <<>>, rules |-> {}, constructed |-> 0]

\* A variant of __init__ that sets the rules before it validates the definition.
Ruleset___init___rules_first(ruleset_str, document) ==
    LET loaded == Ruleset_loads(ruleset_str)
    IN  IF ~loaded.ok THEN [NoRuleset EXCEPT !.status = loaded.exc]
        ELSE LET set == Ruleset_set_rules(loaded.val)
             IN  IF set.exc # ""
                 THEN [NoRuleset EXCEPT !.status = set.exc, !.constructed = set.constructed]
                 ELSE IF Ruleset_validate_ruleset(loaded.val, document) # ""
                 THEN [NoRuleset EXCEPT !.status = Ruleset_validate_ruleset(loaded.val, document),
                                        !.constructed = set.constructed]
                 ELSE [status |-> "ok", ruleset |-> loaded.val, rules |-> set.rules,
                       constructed |-> set.constructed]

\* Ruleset.__init__: the object built, or the exception that left __init__
\* (status), in which case the caller gets no Ruleset. `document` is the dict
\* that ruleset_schema() returns to validate_ruleset (line 84).
Ruleset___init__(ruleset_str, document) ==
    LET loaded == Ruleset_loads(ruleset_str)
    IN  IF ~loaded.ok THEN [NoRuleset EXCEPT !.status = loaded.exc]
        ELSE IF Ruleset_validate_ruleset(loaded.val, document) # ""
             THEN [NoRuleset EXCEPT !.status = Ruleset_validate_ruleset(loaded.val, document)]
        ELSE LET set == Ruleset_set_rules(loaded.val)
             IN  IF set.exc # ""
                 THEN [NoRuleset EXCEPT !.status = set.exc, !.constructed = set.constructed]
                 ELSE [status |-> "ok", ruleset |-> loaded.val, rules |-> set.rules,
                       constructed |-> set.constructed]

(***************************************************************************)
(* Dataset trees. A tree is the sequence of its base elements in document  *)
(* order; a base element has the XPath that selects it and, in document    *)
(* order, the nodes under it, each with its path from the base element and *)
(* its text (a sequence of characters, or None).                           *)
(***************************************************************************)
Text(chars) == [is_none |-> FALSE, chars |-> chars]
NoneText == [is_none |-> TRUE, chars |-> <<>>]
Node(path, text) == [path |-> path, text |-> text]

NodeKinds ==
    {Node("sector", Text(<<"A", "A">>)),
     Node("transaction/sector", Text(<<"A", "A">>)),
     Node("iati-identifier", Text(<<"A", "A", "-", "1", "2", "3">>)),
     Node("iati-identifier", Text(<<"A", "A", "/", "1", "2", "3">>)),
     Node("iati-identifier", Text(<<"/", "A", "A">>)),
     Node("iati-identifier", NoneText),
     Node("recipient-country/@percentage", Text(<<"6", "0">>)),
     Node("recipient-region/@percentage", Text(<<"4", "0">>)),
     Node("recipient-region/@percentage", Text(<<"3", "0">>)),
     Node("activity-date[@type='1']/@iso-date", Text(<<"2", "0", "0", "1">>)),
     Node("activity-date[@type='1']/@iso-date", Text(<<"2", "0", "0", "3">>)),
     Node("activity-date[@type='3']/@iso-date", Text(<<"2", "0", "0", "2">>))}

Element(nodes) == [xpath |-> "//iati-activity", nodes |-> nodes]

Trees ==
    {<<>>}
    \cup {<<Element(ns)>> : ns \in SeqsUpTo(NodeKinds, MaxNodes)}
    \cup UNION {{<<Element(n1), Element(n2)>> :
                    n1 \in [1..m -> NodeKinds], n2 \in SeqsUpTo(NodeKinds, MaxNodes - m)} :
                m \in 0..MaxNodes}

(***************************************************************************)
(* Strings. A Python str is a TLA+ string; Char(s, i) is s[i - 1].          *)
(***************************************************************************)
Char(s, i) == SubSeq(s, i, i)
Chars(s) == [i \in 1..Len(s) |-> Char(s, i)]
Min(S) == CHOOSE m \in S : \A n \in S : m <= n
StartsWith(s, prefix) == Len(s) >= Len(prefix) /\ SubSeq(s, 1, Len(prefix)) = prefix
EndsWith(s, suffix) ==
    Len(s) >= Len(suffix) /\ SubSeq(s, Len(s) - Len(suffix) + 1, Len(s)) = suffix
Contains(s, c) == \E i \in 1..Len(s) : Char(s, i) = c
\* the index of the first character of s at or after i that is in `stop`, or
\* Len(s) + 1
FirstOf(s, i, stop) ==
    IF \E j \in i..Len(s) : Char(s, j) \in stop
    THEN Min({j \in i..Len(s) : Char(s, j) \in stop})
    ELSE Len(s) + 1
\* the index of the first character of s at or after i that is not in `run`
FirstNotOf(s, i, run) ==
    IF \E j \in i..Len(s) : Char(s, j) \notin run
    THEN Min({j \in i..Len(s) : Char(s, j) \notin run})
    ELSE Len(s) + 1

AsciiDigits == {"0", "1", "2", "3", "4", "5", "6", "7", "8", "9"}
DigitValue(c) ==
    CASE c = "0" -> 0 [] c = "1" -> 1 [] c = "2" -> 2 [] c = "3" -> 3 [] c = "4" -> 4
      [] c = "5" -> 5 [] c = "6" -> 6 [] c = "7" -> 7 [] c = "8" -> 8 [] c = "9" -> 9
RECURSIVE Natural(_)
Natural(s) ==
    IF s = "" THEN 0
    ELSE 10 * Natural(SubSeq(s, 1, Len(s) - 1)) + DigitValue(Char(s, Len(s)))
\* re.match(r"\-?\d+$", s) and int(s), for the digits a path is written with
IsIntText(s) ==
    LET digits == IF StartsWith(s, "-") THEN SubSeq(s, 2, Len(s)) ELSE s
    IN  digits # "" /\ \A i \in 1..Len(digits) : Char(digits, i) \in AsciiDigits
int(s) == IF StartsWith(s, "-") THEN 0 - Natural(SubSeq(s, 2, Len(s))) ELSE Natural(s)

(***************************************************************************)
(* The document a dataset tree stands for, as xml.etree holds it: an       *)
(* element has a tag, a text (or None), attributes, its children in        *)
(* document order and, as its identity, its position under the root. The   *)
(* root is iati-activities; a base element is its child; a node of a base  *)
(* element is a chain of elements, one per step of its path, the last of   *)
(* which has the node's text; a last step @name is an attribute of the     *)
(* element before it, and a step name[@k='v'] an element with attribute k. *)
(***************************************************************************)
XmlElement(tag, text, attrib, children, pos) ==
    [tag |-> tag, text |-> text, attrib |-> attrib, children |-> children, pos |-> pos]

RECURSIVE Split(_, _)
Split(s, sep) ==
    LET i == FirstOf(s, 1, {sep})
    IN  IF i > Len(s) THEN <<s>>
        ELSE <<SubSeq(s, 1, i - 1)>> \o Split(SubSeq(s, i + 1, Len(s)), sep)

\* of a step name[@k='v']: the name and the attributes
StepTag(step) == SubSeq(step, 1, FirstOf(step, 1, {"["}) - 1)
RECURSIVE StepAttrib(_)
StepAttrib(step) ==
    LET open == FirstOf(step, 1, {"["})
        eq == FirstOf(step, open, {"="})
        close == FirstOf(step, open, {"]"})
    IN  IF open > Len(step) THEN {}
        ELSE {<<SubSeq(step, open + 2, eq - 1), Chars(SubSeq(step, eq + 2, close - 2))>>}
             \cup StepAttrib(SubSeq(step, close + 1, Len(step)))

RECURSIVE Chain(_, _, _, _)
Chain(steps, k, text, pos) ==
    LET last_is_attribute == StartsWith(steps[Len(steps)], "@")
        own == StepAttrib(steps[k])
    IN  IF k = Len(steps)
        THEN XmlElement(StepTag(steps[k]), text, own, <<>>, pos)
        ELSE IF k = Len(steps) - 1 /\ last_is_attribute
        THEN XmlElement(StepTag(steps[k]), NoneText,
                        own \cup {<<SubSeq(steps[k + 1], 2, Len(steps[k + 1])), text.chars>>},
                        <<>>, pos)
        ELSE XmlElement(StepTag(steps[k]), NoneText, own,
                        <<Chain(steps, k + 1, text, Append(pos, 1))>>, pos)

BaseElement(element, e) ==
    XmlElement(SubSeq(element.xpath, 3, Len(element.xpath)), NoneText, {},
               [n \in DOMAIN element.nodes |->
                   Chain(Split(element.nodes[n].path, "/"), 1, element.nodes[n].text,
                         <<e, n>>)],
               <<e>>)

getroot(dataset_tree) ==
    XmlElement("iati-activities", NoneText, {},
               [e \in DOMAIN dataset_tree |-> BaseElement(dataset_tree[e], e)], <<>>)

\* elem.iter(): the element and its descendants in document order
RECURSIVE Iter(_)
Iter(elem) == <<elem>> \o Concat([c \in DOMAIN elem.children |-> Iter(elem.children[c])])

RECURSIVE ElementAt(_, _)
ElementAt(root, pos) ==
    IF pos = <<>> THEN root ELSE ElementAt(root.children[Head(pos)], Tail(pos))

\* elem.get(key): the characters of the value, or None
HasAttribute(elem, key) == \E a \in elem.attrib : a[1] = key
AttributeValue(elem, key) == (CHOOSE a \in elem.attrib : a[1] = key)[2]

\* "".join(elem.itertext())
RECURSIVE Itertext(_)
Itertext(elem) ==
    (IF elem.text.is_none THEN <<>> ELSE elem.text.chars)
    \o Concat([c \in DOMAIN elem.children |-> Itertext(elem.children[c])])

(***************************************************************************)
(* xml.etree.ElementPath: the tokens of a path. A token is (op, tag); a    *)
(* tag with a namespace prefix raises SyntaxError when it is reached, as   *)
(* no prefix map is given.                                                 *)
(***************************************************************************)
Token(op, tag) == [op |-> op, tag |-> tag]
PrefixNotFound == "<prefix not found>"
Whitespace == {" ", "\t", "\n", "\r", "\f"}
SingleOps == {"/", ".", "*", ":", "[", "]", "(", ")", "@", "="}
DoubleOps == {"::", "//", "..", "()", "!="}
NotInTag == {"/", "[", "]", "(", ")", "@", "!", "="} \cup Whitespace

\* where the tag that starts at i ends: an optional {namespace}, then characters
\* that can be in a tag
TagEnd(s, i) ==
    LET close == FirstOf(s, i, {"}"})
        after == FirstOf(s, close + 1, NotInTag)
    IN  IF Char(s, i) = "{" /\ close <= Len(s) /\ close >= i + 2 /\ after > close + 1
        THEN after - 1
        ELSE FirstOf(s, i, NotInTag) - 1

TagToken(tag) ==
    IF Char(tag, 1) # "{" /\ Contains(tag, ":") THEN Token(PrefixNotFound, tag)
    ELSE Token("", tag)

RECURSIVE xpath_tokenizer(_, _)
xpath_tokenizer(s, i) ==
    IF i > Len(s) THEN <<>>
    ELSE LET c == Char(s, i)
             two == SubSeq(s, i, i + 1)
             quote == FirstOf(s, i + 1, {c})
         IN  IF c \in {"'", "\""} /\ quote <= Len(s)
             THEN <<Token(SubSeq(s, i, quote), "")>> \o xpath_tokenizer(s, quote + 1)
             ELSE IF i < Len(s) /\ two \in DoubleOps
             THEN <<Token(two, "")>> \o xpath_tokenizer(s, i + 2)
             ELSE IF c \in SingleOps
             THEN <<Token(c, "")>> \o xpath_tokenizer(s, i + 1)
             ELSE IF c \in Whitespace
             THEN <<Token("", "")>> \o xpath_tokenizer(s, FirstNotOf(s, i, Whitespace))
             ELSE IF c \in NotInTag
             THEN xpath_tokenizer(s, i + 1)
             ELSE <<TagToken(SubSeq(s, i, TagEnd(s, i)))>>
                  \o xpath_tokenizer(s, TagEnd(s, i) + 1)

(***************************************************************************)
(* xml.etree.ElementPath: the selectors. A selector is a record; Select    *)
(* applies it to the elements the selector before it gave.                 *)
(***************************************************************************)
Selector(kind, tag, key, value, index) ==
    [kind |-> kind, tag |-> tag, key |-> key, value |-> value, index |-> index]
\* what a prepare_ function returns when the tokens end within it
NoSelector == Selector("None", "", "", "", 0)

_is_wildcard_tag(tag) == StartsWith(tag, "{*}") \/ EndsWith(tag, "}*")

\* _prepare_tag: whether a wildcard tag selects an element of tag el_tag
WildcardMatches(tag, el_tag) ==
    IF tag = "{*}*" THEN TRUE
    ELSE IF tag = "{}*" THEN Char(el_tag, 1) # "{"
    ELSE IF StartsWith(tag, "{*}")
    THEN el_tag = SubSeq(tag, 4, Len(tag)) \/ EndsWith(el_tag, SubSeq(tag, 3, Len(tag)))
    ELSE StartsWith(el_tag, SubSeq(tag, 1, Len(tag) - 1))

\* prepare_child and prepare_descendant compare with the tag without a leading {}
PlainTag(tag) == IF StartsWith(tag, "{}") THEN SubSeq(tag, 3, Len(tag)) ELSE tag
TagMatches(tag, el_tag) ==
    IF _is_wildcard_tag(tag) THEN WildcardMatches(tag, el_tag) ELSE el_tag = PlainTag(tag)

\* elem.findall(tag) and elem.find(tag) for a path that is one tag
ChildrenWithTag(elem, tag) == SelectSeq(elem.children, LAMBDA e : TagMatches(tag, e.tag))

\* elem.iter(tag) without elem: "*" stands for every tag
DescendantMatches(tag, el_tag) ==
    IF _is_wildcard_tag(tag) THEN WildcardMatches(tag, el_tag)
    ELSE PlainTag(tag) = "*" \/ el_tag = PlainTag(tag)
Descendants(elem, tag) ==
    SelectSeq(Tail(Iter(elem)), LAMBDA e : DescendantMatches(tag, e.tag))

RECURSIVE Unique(_, _)
Unique(elems, seen) ==
    IF elems = <<>> THEN <<>>
    ELSE IF Head(elems).pos \in seen THEN Unique(Tail(elems), seen)
    ELSE <<Head(elems)>> \o Unique(Tail(elems), seen \cup {Head(elems).pos})

\* the element of a predicate [index], [last()] or [last()-n] among the children
\* of its parent that have its tag
AtIndex(root, elem, index) ==
    IF elem.pos = <<>> THEN FALSE
    ELSE LET parent == ElementAt(root, SubSeq(elem.pos, 1, Len(elem.pos) - 1))
             elems == ChildrenWithTag(parent, elem.tag)
             at == IF index >= 0 THEN index + 1 ELSE Len(elems) + 1 + index
         IN  at \in DOMAIN elems /\ elems[at].pos = elem.pos

Select(selector, root, matched) ==
    CASE selector.kind = "child" ->
            Concat([i \in DOMAIN matched |-> ChildrenWithTag(matched[i], selector.tag)])
      [] selector.kind = "star" -> Concat([i \in DOMAIN matched |-> matched[i].children])
      [] selector.kind = "self" -> matched
      [] selector.kind = "parent" ->
            Unique([i \in DOMAIN SelectSeq(matched, LAMBDA e : e.pos # <<>>) |->
                       ElementAt(root,
                           SubSeq(SelectSeq(matched, LAMBDA e : e.pos # <<>>)[i].pos, 1,
                                  Len(SelectSeq(matched, LAMBDA e : e.pos # <<>>)[i].pos) - 1))],
                   {})
      [] selector.kind = "descendant" ->
            Concat([i \in DOMAIN matched |-> Descendants(matched[i], selector.tag)])
      [] selector.kind = "@-" ->
            SelectSeq(matched, LAMBDA e : HasAttribute(e, selector.key))
      [] selector.kind = "@-='" ->
            SelectSeq(matched, LAMBDA e : /\ HasAttribute(e, selector.key)
                                         /\ AttributeValue(e, selector.key) = Chars(selector.value))
      [] selector.kind = "@-!='" ->
            SelectSeq(matched, LAMBDA e : /\ HasAttribute(e, selector.key)
                                         /\ AttributeValue(e, selector.key) # Chars(selector.value))
      [] selector.kind = "-" ->
            SelectSeq(matched, LAMBDA e : ChildrenWithTag(e, selector.tag) # <<>>)
      [] selector.kind = "-='" ->
            SelectSeq(matched, LAMBDA e :
                \E c \in DOMAIN ChildrenWithTag(e, selector.tag) :
                    Itertext(ChildrenWithTag(e, selector.tag)[c]) = Chars(selector.value))
      [] selector.kind = "-!='" ->
            SelectSeq(matched, LAMBDA e :
                \E c \in DOMAIN ChildrenWithTag(e, selector.tag) :
                    Itertext(ChildrenWithTag(e, selector.tag)[c]) # Chars(selector.value))
      [] selector.kind = ".='" ->
            SelectSeq(matched, LAMBDA e : Itertext(e) = Chars(selector.value))
      [] selector.kind = ".!='" ->
            SelectSeq(matched, LAMBDA e : Itertext(e) # Chars(selector.value))
      [] selector.kind = "index" ->
            SelectSeq(matched, LAMBDA e : AtIndex(root, e, selector.index))

\* prepare_descendant: the token after // names the tag
prepare_descendant(tokens, i) ==
    IF i + 1 > Len(tokens) THEN [ok |-> TRUE, exc |-> "", val |-> NoSelector, next |-> i + 2]
    ELSE IF tokens[i + 1].op = PrefixNotFound
    THEN [ok |-> FALSE, exc |-> "SyntaxError", val |-> NoSelector, next |-> i + 2]
    ELSE IF tokens[i + 1].op = "*"
    THEN [ok |-> TRUE, exc |-> "", val |-> Selector("descendant", "*", "", "", 0),
          next |-> i + 2]
    ELSE IF tokens[i + 1].op = ""
    THEN [ok |-> TRUE, exc |-> "",
          val |-> Selector("descendant", tokens[i + 1].tag, "", "", 0), next |-> i + 2]
    ELSE [ok |-> FALSE, exc |-> "SyntaxError", val |-> NoSelector, next |-> i + 2]

\* prepare_predicate: the tokens up to ], without the whitespace, give the
\* signature and the predicate
IsQuoted(token) == token.op # "" /\ Char(token.op, 1) \in {"'", "\""}
RECURSIVE Signature(_)
Signature(tokens) ==
    IF tokens = <<>> THEN ""
    ELSE (IF IsQuoted(Head(tokens)) THEN "'"
          ELSE IF Head(tokens).op = "" THEN "-" ELSE Head(tokens).op)
         \o Signature(Tail(tokens))
Predicate(tokens) ==
    [i \in DOMAIN tokens |->
        IF IsQuoted(tokens[i]) THEN SubSeq(tokens[i].op, 2, Len(tokens[i].op) - 1)
        ELSE tokens[i].tag]

PredicateSelector(signature, predicate) ==
    IF signature = "@-" THEN Returned(Selector("@-", "", predicate[2], "", 0))
    ELSE IF signature \in {"@-='", "@-!='"}
    THEN Returned(Selector(signature, "", predicate[2], predicate[Len(predicate)], 0))
    ELSE IF signature = "-" /\ ~IsIntText(predicate[1])
    THEN Returned(Selector("-", predicate[1], "", "", 0))
    ELSE IF \/ signature \in {".='", ".!='"}
            \/ signature \in {"-='", "-!='"} /\ ~IsIntText(predicate[1])
    THEN Returned(Selector(signature, predicate[1], "", predicate[Len(predicate)], 0))
    ELSE IF signature = "-"
    THEN IF int(predicate[1]) - 1 < 0 THEN Raised("SyntaxError")
         ELSE Returned(Selector("index", "", "", "", int(predicate[1]) - 1))
    ELSE IF signature \in {"-()", "-()-"}
    THEN IF predicate[1] # "last" THEN Raised("SyntaxError")
         ELSE IF signature = "-()" THEN Returned(Selector("index", "", "", "", 0 - 1))
         ELSE IF ~IsIntText(predicate[3]) THEN Raised("SyntaxError")
         ELSE IF int(predicate[3]) - 1 > 0 - 2 THEN Raised("SyntaxError")
         ELSE Returned(Selector("index", "", "", "", int(predicate[3]) - 1))
    ELSE Raised("SyntaxError")

prepare_predicate(tokens, i) ==
    LET prepared(close, selector) ==
            IF \E j \in (i + 1)..(close - 1) : tokens[j].op = PrefixNotFound
            THEN [ok |-> FALSE, exc |-> "SyntaxError", val |-> NoSelector, next |-> close + 1]
            ELSE IF close > Len(tokens)
            THEN [ok |-> TRUE, exc |-> "", val |-> NoSelector, next |-> close + 1]
            ELSE [ok |-> selector.ok, exc |-> selector.exc,
                  val |-> IF selector.ok THEN selector.val ELSE NoSelector, next |-> close + 1]
        signed(inside) == PredicateSelector(Signature(inside), Predicate(inside))
        closed(close) ==
            prepared(close, signed(SelectSeq(SubSeq(tokens, i + 1, close - 1),
                                             LAMBDA t : t # Token("", ""))))
    IN  closed(IF \E j \in (i + 1)..Len(tokens) : tokens[j].op = "]"
               THEN Min({j \in (i + 1)..Len(tokens) : tokens[j].op = "]"})
               ELSE Len(tokens) + 1)

\* ops[token[0]](next, token): a token that is no key of ops raises KeyError
prepare(tokens, i) ==
    LET op == tokens[i].op
        one(kind) == [ok |-> TRUE, exc |-> "", val |-> Selector(kind, tokens[i].tag, "", "", 0),
                      next |-> i + 1]
    IN  IF op = PrefixNotFound
        THEN [ok |-> FALSE, exc |-> "SyntaxError", val |-> NoSelector, next |-> i + 1]
        ELSE IF op = "" THEN one("child")
        ELSE IF op = "*" THEN one("star")
        ELSE IF op = "." THEN one("self")
        ELSE IF op = ".." THEN one("parent")
        ELSE IF op = "//" THEN prepare_descendant(tokens, i)
        ELSE IF op = "[" THEN prepare_predicate(tokens, i)
        ELSE [ok |-> FALSE, exc |-> "KeyError", val |-> NoSelector, next |-> i + 1]

\* the loop of iterfind that builds the selectors: after a selector, a / is
\* passed over
RECURSIVE Selectors(_, _)
Selectors(tokens, i) ==
    LET followed(first, rest) ==
            IF ~rest.ok THEN rest ELSE Returned(<<first.val>> \o rest.val)
        from(first, after) ==
            IF after > Len(tokens) THEN Returned(<<first.val>>)
            ELSE followed(first, Selectors(tokens, after))
        prepared(first) ==
            IF ~first.ok THEN Raised(first.exc)
            ELSE IF first.next <= Len(tokens) /\ tokens[first.next].op = PrefixNotFound
            THEN Raised("SyntaxError")
            ELSE from(first, IF first.next <= Len(tokens) /\ tokens[first.next].op = "/"
                             THEN first.next + 1 ELSE first.next)
    IN  prepared(prepare(tokens, i))

RECURSIVE Apply(_, _, _)
Apply(selectors, root, matched) ==
    IF selectors = <<>> THEN matched
    ELSE Apply(Tail(selectors), root, Select(Head(selectors), root, matched))

\* ElementPath.iterfind(elem, path) as list() or next() use it: the elements in
\* the order the selectors give them, or the exception raised
iterfind(elem, path) ==
    LET all == IF EndsWith(path, "/") THEN path \o "*" ELSE path
        selected(selectors) ==
            IF ~selectors.ok THEN selectors
            ELSE IF \E k \in DOMAIN selectors.val : selectors.val[k] = NoSelector
            THEN Raised("TypeError")
            ELSE Returned(Apply(selectors.val, elem, <<elem>>))
        tokenized(tokens) ==
            IF tokens = <<>> THEN Raised("TypeError") ELSE selected(Selectors(tokens, 1))
    IN  IF StartsWith(all, "/") THEN Raised("SyntaxError")
        ELSE tokenized(xpath_tokenizer(all, 1))

\* checkpath of _elementtree.c: whether a path is more than a tag, that is, has one
\* of / * [ @ . outside braces or starts with {} or {*}
Max(S) == CHOOSE m \in S : \A n \in S : m >= n
OutsideBraces(s, i) ==
    LET braces == {j \in 1..(i - 1) : Char(s, j) \in {"{", "}"}}
    IN  braces = {} \/ Char(s, Max(braces)) = "}"
checkpath(path) ==
    \/ Len(path) >= 3 /\ (StartsWith(path, "{}") \/ StartsWith(path, "{*}"))
    \/ \E i \in 1..Len(path) :
          Char(path, i) \in {"/", "*", "[", "@", "."} /\ OutsideBraces(path, i)

\* Element.findall(path): the children of that tag for a path that is a tag,
\* else ElementPath.findall
Element_findall(elem, path) ==
    IF ~checkpath(path) THEN Returned(SelectSeq(elem.children, LAMBDA e : e.tag = path))
    ELSE iterfind(elem, path)

\* ElementTree.findall(path): a path that starts with / is taken from the root
findall(dataset_tree, xpath) ==
    Element_findall(getroot(dataset_tree),
                    IF StartsWith(xpath, "/") THEN "." \o xpath ELSE xpath)

(***************************************************************************)
(* Characters. A character of a text is a string of length one or, for a   *)
(* character that cannot be written in a module, its code point as         *)
(* "U+0663". ord and chr go by the table of the printable ASCII            *)
(* characters.                                                             *)
(***************************************************************************)
AsciiTable ==
    " !\"#$%&'()*+,-./0123456789:;<=>?@ABCDEFGHIJKLMNOPQRSTUVWXYZ[\\]^_"
AsciiLower == "abcdefghijklmnopqrstuvwxyz{|}~"
HexDigits == "0123456789ABCDEF"
IndexIn(table, c) == CHOOSE i \in 1..Len(table) : Char(table, i) = c
UpperHex(c) ==
    CASE c = "a" -> "A" [] c = "b" -> "B" [] c = "c" -> "C" [] c = "d" -> "D"
      [] c = "e" -> "E" [] c = "f" -> "F" [] OTHER -> c
IsHexDigit(c) == \E i \in 1..Len(HexDigits) : Char(HexDigits, i) = UpperHex(c)
RECURSIVE HexValue(_)
HexValue(s) ==
    IF s = "" THEN 0
    ELSE 16 * HexValue(SubSeq(s, 1, Len(s) - 1))
         + IndexIn(HexDigits, UpperHex(Char(s, Len(s)))) - 1
RECURSIVE OctalValue(_)
OctalValue(s) ==
    IF s = "" THEN 0
    ELSE 8 * OctalValue(SubSeq(s, 1, Len(s) - 1)) + DigitValue(Char(s, Len(s)))
HexDigit(n) == Char(HexDigits, (n % 16) + 1)
RECURSIVE HexText(_)
HexText(n) == IF n < 16 THEN HexDigit(n) ELSE HexText(n \div 16) \o HexDigit(n)
\* at least four digits
HexOf(n) ==
    IF n >= 65536 THEN HexText(n)
    ELSE HexDigit(n \div 4096) \o HexDigit(n \div 256) \o HexDigit(n \div 16) \o HexDigit(n)

\* the code points of the printable ASCII characters, but the backtick
AsciiOrd ==
    [c \in {Char(AsciiTable, i) : i \in 1..Len(AsciiTable)}
             \cup {Char(AsciiLower, i) : i \in 1..Len(AsciiLower)} |->
        IF \E i \in 1..Len(AsciiLower) : Char(AsciiLower, i) = c
        THEN IndexIn(AsciiLower, c) + 96
        ELSE IndexIn(AsciiTable, c) + 31]
ord(c) ==
    IF c \in DOMAIN AsciiOrd THEN AsciiOrd[c]
    ELSE CASE c = "\t" -> 9 [] c = "\n" -> 10 [] c = "\f" -> 12 [] c = "\r" -> 13
           [] OTHER -> HexValue(SubSeq(c, 3, Len(c)))
chr(n) ==
    CASE n = 9 -> "\t" [] n = 10 -> "\n" [] n = 12 -> "\f" [] n = 13 -> "\r"
      [] n >= 32 /\ n <= 95 -> Char(AsciiTable, n - 31)
      [] n >= 97 /\ n <= 126 -> Char(AsciiLower, n - 96)
      [] OTHER -> "U+" \o HexOf(n)

\* The code points from 128 on for which str.isdecimal, str.isspace and
\* str.isalnum hold (Unicode 14.0.0, the database of Python 3.11), as ranges.
DecimalRanges ==
    <<<<1632, 1641>>, <<1776, 1785>>, <<1984, 1993>>, <<2406, 2415>>, <<2534, 2543>>, <<2662,
      2671>>, <<2790, 2799>>, <<2918, 2927>>, <<3046, 3055>>, <<3174, 3183>>, <<3302, 3311>>,
      <<3430, 3439>>, <<3558, 3567>>, <<3664, 3673>>, <<3792, 3801>>, <<3872, 3881>>, <<4160,
      4169>>, <<4240, 4249>>, <<6112, 6121>>, <<6160, 6169>>, <<6470, 6479>>, <<6608, 6617>>,
      <<6784, 6793>>, <<6800, 6809>>, <<6992, 7001>>, <<7088, 7097>>, <<7232, 7241>>, <<7248,
      7257>>, <<42528, 42537>>, <<43216, 43225>>, <<43264, 43273>>, <<43472, 43481>>, <<43504,
      43513>>, <<43600, 43609>>, <<44016, 44025>>, <<65296, 65305>>, <<66720, 66729>>, <<68912,
      68921>>, <<69734, 69743>>, <<69872, 69881>>, <<69942, 69951>>, <<70096, 70105>>, <<70384,
      70393>>, <<70736, 70745>>, <<70864, 70873>>, <<71248, 71257>>, <<71360, 71369>>, <<71472,
      71481>>, <<71904, 71913>>, <<72016, 72025>>, <<72784, 72793>>, <<73040, 73049>>, <<73120,
      73129>>, <<92768, 92777>>, <<92864, 92873>>, <<93008, 93017>>, <<120782, 120831>>, <<123200,
      123209>>, <<123632, 123641>>, <<125264, 125273>>, <<130032, 130041>>>>

SpaceRanges ==
    <<<<133, 133>>, <<160, 160>>, <<5760, 5760>>, <<8192, 8202>>, <<8232, 8233>>, <<8239, 8239>>,
      <<8287, 8287>>, <<12288, 12288>>>>

AlnumRanges ==
    <<<<170, 170>>, <<178, 179>>, <<181, 181>>, <<185, 186>>, <<188, 190>>, <<192, 214>>, <<216,
      246>>, <<248, 705>>, <<710, 721>>, <<736, 740>>, <<748, 748>>, <<750, 750>>, <<880, 884>>,
      <<886, 887>>, <<890, 893>>, <<895, 895>>, <<902, 902>>, <<904, 906>>, <<908, 908>>, <<910,
      929>>, <<931, 1013>>, <<1015, 1153>>, <<1162, 1327>>, <<1329, 1366>>, <<1369, 1369>>,
      <<1376, 1416>>, <<1488, 1514>>, <<1519, 1522>>, <<1568, 1610>>, <<1632, 1641>>, <<1646,
      1647>>, <<1649, 1747>>, <<1749, 1749>>, <<1765, 1766>>, <<1774, 1788>>, <<1791, 1791>>,
      <<1808, 1808>>, <<1810, 1839>>, <<1869, 1957>>, <<1969, 1969>>, <<1984, 2026>>, <<2036,
      2037>>, <<2042, 2042>>, <<2048, 2069>>, <<2074, 2074>>, <<2084, 2084>>, <<2088, 2088>>,
      <<2112, 2136>>, <<2144, 2154>>, <<2160, 2183>>, <<2185, 2190>>, <<2208, 2249>>, <<2308,
      2361>>, <<2365, 2365>>, <<2384, 2384>>, <<2392, 2401>>, <<2406, 2415>>, <<2417, 2432>>,
      <<2437, 2444>>, <<2447, 2448>>, <<2451, 2472>>, <<2474, 2480>>, <<2482, 2482>>, <<2486,
      2489>>, <<2493, 2493>>, <<2510, 2510>>, <<2524, 2525>>, <<2527, 2529>>, <<2534, 2545>>,
      <<2548, 2553>>, <<2556, 2556>>, <<2565, 2570>>, <<2575, 2576>>, <<2579, 2600>>, <<2602,
      2608>>, <<2610, 2611>>, <<2613, 2614>>, <<2616, 2617>>, <<2649, 2652>>, <<2654, 2654>>,
      <<2662, 2671>>, <<2674, 2676>>, <<2693, 2701>>, <<2703, 2705>>, <<2707, 2728>>, <<2730,
      2736>>, <<2738, 2739>>, <<2741, 2745>>, <<2749, 2749>>, <<2768, 2768>>, <<2784, 2785>>,
      <<2790, 2799>>, <<2809, 2809>>, <<2821, 2828>>, <<2831, 2832>>, <<2835, 2856>>, <<2858,
      2864>>, <<2866, 2867>>, <<2869, 2873>>, <<2877, 2877>>, <<2908, 2909>>, <<2911, 2913>>,
      <<2918, 2927>>, <<2929, 2935>>, <<2947, 2947>>, <<2949, 2954>>, <<2958, 2960>>, <<2962,
      2965>>, <<2969, 2970>>, <<2972, 2972>>, <<2974, 2975>>, <<2979, 2980>>, <<2984, 2986>>,
      <<2990, 3001>>, <<3024, 3024>>, <<3046, 3058>>, <<3077, 3084>>, <<3086, 3088>>, <<3090,
      3112>>, <<3114, 3129>>, <<3133, 3133>>, <<3160, 3162>>, <<3165, 3165>>, <<3168, 3169>>,
      <<3174, 3183>>, <<3192, 3198>>, <<3200, 3200>>, <<3205, 3212>>, <<3214, 3216>>, <<3218,
      3240>>, <<3242, 3251>>, <<3253, 3257>>, <<3261, 3261>>, <<3293, 3294>>, <<3296, 3297>>,
      <<3302, 3311>>, <<3313, 3314>>, <<3332, 3340>>, <<3342, 3344>>, <<3346, 3386>>, <<3389,
      3389>>, <<3406, 3406>>, <<3412, 3414>>, <<3416, 3425>>, <<3430, 3448>>, <<3450, 3455>>,
      <<3461, 3478>>, <<3482, 3505>>, <<3507, 3515>>, <<3517, 3517>>, <<3520, 3526>>, <<3558,
      3567>>, <<3585, 3632>>, <<3634, 3635>>, <<3648, 3654>>, <<3664, 3673>>, <<3713, 3714>>,
      <<3716, 3716>>, <<3718, 3722>>, <<3724, 3747>>, <<3749, 3749>>, <<3751, 3760>>, <<3762,
      3763>>, <<3773, 3773>>, <<3776, 3780>>, <<3782, 3782>>, <<3792, 3801>>, <<3804, 3807>>,
      <<3840, 3840>>, <<3872, 3891>>, <<3904, 3911>>, <<3913, 3948>>, <<3976, 3980>>, <<4096,
      4138>>, <<4159, 4169>>, <<4176, 4181>>, <<4186, 4189>>, <<4193, 4193>>, <<4197, 4198>>,
      <<4206, 4208>>, <<4213, 4225>>, <<4238, 4238>>, <<4240, 4249>>, <<4256, 4293>>, <<4295,
      4295>>, <<4301, 4301>>, <<4304, 4346>>, <<4348, 4680>>, <<4682, 4685>>, <<4688, 4694>>,
      <<4696, 4696>>, <<4698, 4701>>, <<4704, 4744>>, <<4746, 4749>>, <<4752, 4784>>, <<4786,
      4789>>, <<4792, 4798>>, <<4800, 4800>>, <<4802, 4805>>, <<4808, 4822>>, <<4824, 4880>>,
      <<4882, 4885>>, <<4888, 4954>>, <<4969, 4988>>, <<4992, 5007>>, <<5024, 5109>>, <<5112,
      5117>>, <<5121, 5740>>, <<5743, 5759>>, <<5761, 5786>>, <<5792, 5866>>, <<5870, 5880>>,
      <<5888, 5905>>, <<5919, 5937>>, <<5952, 5969>>, <<5984, 5996>>, <<5998, 6000>>, <<6016,
      6067>>, <<6103, 6103>>, <<6108, 6108>>, <<6112, 6121>>, <<6128, 6137>>, <<6160, 6169>>,
      <<6176, 6264>>, <<6272, 6276>>, <<6279, 6312>>, <<6314, 6314>>, <<6320, 6389>>, <<6400,
      6430>>, <<6470, 6509>>, <<6512, 6516>>, <<6528, 6571>>, <<6576, 6601>>, <<6608, 6618>>,
      <<6656, 6678>>, <<6688, 6740>>, <<6784, 6793>>, <<6800, 6809>>, <<6823, 6823>>, <<6917,
      6963>>, <<6981, 6988>>, <<6992, 7001>>, <<7043, 7072>>, <<7086, 7141>>, <<7168, 7203>>,
      <<7232, 7241>>, <<7245, 7293>>, <<7296, 7304>>, <<7312, 7354>>, <<7357, 7359>>, <<7401,
      7404>>, <<7406, 7411>>, <<7413, 7414>>, <<7418, 7418>>, <<7424, 7615>>, <<7680, 7957>>,
      <<7960, 7965>>, <<7968, 8005>>, <<8008, 8013>>, <<8016, 8023>>, <<8025, 8025>>, <<8027,
      8027>>, <<8029, 8029>>, <<8031, 8061>>, <<8064, 8116>>, <<8118, 8124>>, <<8126, 8126>>,
      <<8130, 8132>>, <<8134, 8140>>, <<8144, 8147>>, <<8150, 8155>>, <<8160, 8172>>, <<8178,
      8180>>, <<8182, 8188>>, <<8304, 8305>>, <<8308, 8313>>, <<8319, 8329>>, <<8336, 8348>>,
      <<8450, 8450>>, <<8455, 8455>>, <<8458, 8467>>, <<8469, 8469>>, <<8473, 8477>>, <<8484,
      8484>>, <<8486, 8486>>, <<8488, 8488>>, <<8490, 8493>>, <<8495, 8505>>, <<8508, 8511>>,
      <<8517, 8521>>, <<8526, 8526>>, <<8528, 8585>>, <<9312, 9371>>, <<9450, 9471>>, <<10102,
      10131>>, <<11264, 11492>>, <<11499, 11502>>, <<11506, 11507>>, <<11517, 11517>>, <<11520,
      11557>>, <<11559, 11559>>, <<11565, 11565>>, <<11568, 11623>>, <<11631, 11631>>, <<11648,
      11670>>, <<11680, 11686>>, <<11688, 11694>>, <<11696, 11702>>, <<11704, 11710>>, <<11712,
      11718>>, <<11720, 11726>>, <<11728, 11734>>, <<11736, 11742>>, <<11823, 11823>>, <<12293,
      12295>>, <<12321, 12329>>, <<12337, 12341>>, <<12344, 12348>>, <<12353, 12438>>, <<12445,
      12447>>, <<12449, 12538>>, <<12540, 12543>>, <<12549, 12591>>, <<12593, 12686>>, <<12690,
      12693>>, <<12704, 12735>>, <<12784, 12799>>, <<12832, 12841>>, <<12872, 12879>>, <<12881,
      12895>>, <<12928, 12937>>, <<12977, 12991>>, <<13312, 19903>>, <<19968, 42124>>, <<42192,
      42237>>, <<42240, 42508>>, <<42512, 42539>>, <<42560, 42606>>, <<42623, 42653>>, <<42656,
      42735>>, <<42775, 42783>>, <<42786, 42888>>, <<42891, 42954>>, <<42960, 42961>>, <<42963,
      42963>>, <<42965, 42969>>, <<42994, 43009>>, <<43011, 43013>>, <<43015, 43018>>, <<43020,
      43042>>, <<43056, 43061>>, <<43072, 43123>>, <<43138, 43187>>, <<43216, 43225>>, <<43250,
      43255>>, <<43259, 43259>>, <<43261, 43262>>, <<43264, 43301>>, <<43312, 43334>>, <<43360,
      43388>>, <<43396, 43442>>, <<43471, 43481>>, <<43488, 43492>>, <<43494, 43518>>, <<43520,
      43560>>, <<43584, 43586>>, <<43588, 43595>>, <<43600, 43609>>, <<43616, 43638>>, <<43642,
      43642>>, <<43646, 43695>>, <<43697, 43697>>, <<43701, 43702>>, <<43705, 43709>>, <<43712,
      43712>>, <<43714, 43714>>, <<43739, 43741>>, <<43744, 43754>>, <<43762, 43764>>, <<43777,
      43782>>, <<43785, 43790>>, <<43793, 43798>>, <<43808, 43814>>, <<43816, 43822>>, <<43824,
      43866>>, <<43868, 43881>>, <<43888, 44002>>, <<44016, 44025>>, <<44032, 55203>>, <<55216,
      55238>>, <<55243, 55291>>, <<63744, 64109>>, <<64112, 64217>>, <<64256, 64262>>, <<64275,
      64279>>, <<64285, 64285>>, <<64287, 64296>>, <<64298, 64310>>, <<64312, 64316>>, <<64318,
      64318>>, <<64320, 64321>>, <<64323, 64324>>, <<64326, 64433>>, <<64467, 64829>>, <<64848,
      64911>>, <<64914, 64967>>, <<65008, 65019>>, <<65136, 65140>>, <<65142, 65276>>, <<65296,
      65305>>, <<65313, 65338>>, <<65345, 65370>>, <<65382, 65470>>, <<65474, 65479>>, <<65482,
      65487>>, <<65490, 65495>>, <<65498, 65500>>, <<65536, 65547>>, <<65549, 65574>>, <<65576,
      65594>>, <<65596, 65597>>, <<65599, 65613>>, <<65616, 65629>>, <<65664, 65786>>, <<65799,
      65843>>, <<65856, 65912>>, <<65930, 65931>>, <<66176, 66204>>, <<66208, 66256>>, <<66273,
      66299>>, <<66304, 66339>>, <<66349, 66378>>, <<66384, 66421>>, <<66432, 66461>>, <<66464,
      66499>>, <<66504, 66511>>, <<66513, 66517>>, <<66560, 66717>>, <<66720, 66729>>, <<66736,
      66771>>, <<66776, 66811>>, <<66816, 66855>>, <<66864, 66915>>, <<66928, 66938>>, <<66940,
      66954>>, <<66956, 66962>>, <<66964, 66965>>, <<66967, 66977>>, <<66979, 66993>>, <<66995,
      67001>>, <<67003, 67004>>, <<67072, 67382>>, <<67392, 67413>>, <<67424, 67431>>, <<67456,
      67461>>, <<67463, 67504>>, <<67506, 67514>>, <<67584, 67589>>, <<67592, 67592>>, <<67594,
      67637>>, <<67639, 67640>>, <<67644, 67644>>, <<67647, 67669>>, <<67672, 67702>>, <<67705,
      67742>>, <<67751, 67759>>, <<67808, 67826>>, <<67828, 67829>>, <<67835, 67867>>, <<67872,
      67897>>, <<67968, 68023>>, <<68028, 68047>>, <<68050, 68096>>, <<68112, 68115>>, <<68117,
      68119>>, <<68121, 68149>>, <<68160, 68168>>, <<68192, 68222>>, <<68224, 68255>>, <<68288,
      68295>>, <<68297, 68324>>, <<68331, 68335>>, <<68352, 68405>>, <<68416, 68437>>, <<68440,
      68466>>, <<68472, 68497>>, <<68521, 68527>>, <<68608, 68680>>, <<68736, 68786>>, <<68800,
      68850>>, <<68858, 68899>>, <<68912, 68921>>, <<69216, 69246>>, <<69248, 69289>>, <<69296,
      69297>>, <<69376, 69415>>, <<69424, 69445>>, <<69457, 69460>>, <<69488, 69505>>, <<69552,
      69579>>, <<69600, 69622>>, <<69635, 69687>>, <<69714, 69743>>, <<69745, 69746>>, <<69749,
      69749>>, <<69763, 69807>>, <<69840, 69864>>, <<69872, 69881>>, <<69891, 69926>>, <<69942,
      69951>>, <<69956, 69956>>, <<69959, 69959>>, <<69968, 70002>>, <<70006, 70006>>, <<70019,
      70066>>, <<70081, 70084>>, <<70096, 70106>>, <<70108, 70108>>, <<70113, 70132>>, <<70144,
      70161>>, <<70163, 70187>>, <<70272, 70278>>, <<70280, 70280>>, <<70282, 70285>>, <<70287,
      70301>>, <<70303, 70312>>, <<70320, 70366>>, <<70384, 70393>>, <<70405, 70412>>, <<70415,
      70416>>, <<70419, 70440>>, <<70442, 70448>>, <<70450, 70451>>, <<70453, 70457>>, <<70461,
      70461>>, <<70480, 70480>>, <<70493, 70497>>, <<70656, 70708>>, <<70727, 70730>>, <<70736,
      70745>>, <<70751, 70753>>, <<70784, 70831>>, <<70852, 70853>>, <<70855, 70855>>, <<70864,
      70873>>, <<71040, 71086>>, <<71128, 71131>>, <<71168, 71215>>, <<71236, 71236>>, <<71248,
      71257>>, <<71296, 71338>>, <<71352, 71352>>, <<71360, 71369>>, <<71424, 71450>>, <<71472,
      71483>>, <<71488, 71494>>, <<71680, 71723>>, <<71840, 71922>>, <<71935, 71942>>, <<71945,
      71945>>, <<71948, 71955>>, <<71957, 71958>>, <<71960, 71983>>, <<71999, 71999>>, <<72001,
      72001>>, <<72016, 72025>>, <<72096, 72103>>, <<72106, 72144>>, <<72161, 72161>>, <<72163,
      72163>>, <<72192, 72192>>, <<72203, 72242>>, <<72250, 72250>>, <<72272, 72272>>, <<72284,
      72329>>, <<72349, 72349>>, <<72368, 72440>>, <<72704, 72712>>, <<72714, 72750>>, <<72768,
      72768>>, <<72784, 72812>>, <<72818, 72847>>, <<72960, 72966>>, <<72968, 72969>>, <<72971,
      73008>>, <<73030, 73030>>, <<73040, 73049>>, <<73056, 73061>>, <<73063, 73064>>, <<73066,
      73097>>, <<73112, 73112>>, <<73120, 73129>>, <<73440, 73458>>, <<73648, 73648>>, <<73664,
      73684>>, <<73728, 74649>>, <<74752, 74862>>, <<74880, 75075>>, <<77712, 77808>>, <<77824,
      78894>>, <<82944, 83526>>, <<92160, 92728>>, <<92736, 92766>>, <<92768, 92777>>, <<92784,
      92862>>, <<92864, 92873>>, <<92880, 92909>>, <<92928, 92975>>, <<92992, 92995>>, <<93008,
      93017>>, <<93019, 93025>>, <<93027, 93047>>, <<93053, 93071>>, <<93760, 93846>>, <<93952,
      94026>>, <<94032, 94032>>, <<94099, 94111>>, <<94176, 94177>>, <<94179, 94179>>, <<94208,
      100343>>, <<100352, 101589>>, <<101632, 101640>>, <<110576, 110579>>, <<110581, 110587>>,
      <<110589, 110590>>, <<110592, 110882>>, <<110928, 110930>>, <<110948, 110951>>, <<110960,
      111355>>, <<113664, 113770>>, <<113776, 113788>>, <<113792, 113800>>, <<113808, 113817>>,
      <<119520, 119539>>, <<119648, 119672>>, <<119808, 119892>>, <<119894, 119964>>, <<119966,
      119967>>, <<119970, 119970>>, <<119973, 119974>>, <<119977, 119980>>, <<119982, 119993>>,
      <<119995, 119995>>, <<119997, 120003>>, <<120005, 120069>>, <<120071, 120074>>, <<120077,
      120084>>, <<120086, 120092>>, <<120094, 120121>>, <<120123, 120126>>, <<120128, 120132>>,
      <<120134, 120134>>, <<120138, 120144>>, <<120146, 120485>>, <<120488, 120512>>, <<120514,
      120538>>, <<120540, 120570>>, <<120572, 120596>>, <<120598, 120628>>, <<120630, 120654>>,
      <<120656, 120686>>, <<120688, 120712>>, <<120714, 120744>>, <<120746, 120770>>, <<120772,
      120779>>, <<120782, 120831>>, <<122624, 122654>>, <<123136, 123180>>, <<123191, 123197>>,
      <<123200, 123209>>, <<123214, 123214>>, <<123536, 123565>>, <<123584, 123627>>, <<123632,
      123641>>, <<124896, 124902>>, <<124904, 124907>>, <<124909, 124910>>, <<124912, 124926>>,
      <<124928, 125124>>, <<125127, 125135>>, <<125184, 125251>>, <<125259, 125259>>, <<125264,
      125273>>, <<126065, 126123>>, <<126125, 126127>>, <<126129, 126132>>, <<126209, 126253>>,
      <<126255, 126269>>, <<126464, 126467>>, <<126469, 126495>>, <<126497, 126498>>, <<126500,
      126500>>, <<126503, 126503>>, <<126505, 126514>>, <<126516, 126519>>, <<126521, 126521>>,
      <<126523, 126523>>, <<126530, 126530>>, <<126535, 126535>>, <<126537, 126537>>, <<126539,
      126539>>, <<126541, 126543>>, <<126545, 126546>>, <<126548, 126548>>, <<126551, 126551>>,
      <<126553, 126553>>, <<126555, 126555>>, <<126557, 126557>>, <<126559, 126559>>, <<126561,
      126562>>, <<126564, 126564>>, <<126567, 126570>>, <<126572, 126578>>, <<126580, 126583>>,
      <<126585, 126588>>, <<126590, 126590>>, <<126592, 126601>>, <<126603, 126619>>, <<126625,
      126627>>, <<126629, 126633>>, <<126635, 126651>>, <<127232, 127244>>, <<130032, 130041>>,
      <<131072, 173791>>, <<173824, 177976>>, <<177984, 178205>>, <<178208, 183969>>, <<183984,
      191456>>, <<194560, 195101>>, <<196608, 201546>>>>

InRanges(ranges, n) == \E r \in DOMAIN ranges : ranges[r][1] <= n /\ n <= ranges[r][2]

\* the categories of a str pattern compiled without re.ASCII: \d is a decimal
\* digit, \s a whitespace character, \w an alphanumeric character or _
IsDigit(c) ==
    IF c \in DOMAIN AsciiOrd THEN c \in AsciiDigits ELSE InRanges(DecimalRanges, ord(c))
IsSpace(c) ==
    IF c \in DOMAIN AsciiOrd THEN c = " "
    ELSE ord(c) \in (9..13) \cup (28..31) \/ InRanges(SpaceRanges, ord(c))
IsWord(c) ==
    IF c \in DOMAIN AsciiOrd
    THEN ord(c) \in (48..57) \cup (65..90) \cup (97..122) \cup {95}
    ELSE InRanges(AlnumRanges, ord(c))
InCategory(cat, c) ==
    CASE cat = "d" -> IsDigit(c) [] cat = "D" -> ~IsDigit(c)
      [] cat = "s" -> IsSpace(c) [] cat = "S" -> ~IsSpace(c)
      [] cat = "w" -> IsWord(c) [] cat = "W" -> ~IsWord(c)

(***************************************************************************)
(* re.compile: the parser of re._parser for a str pattern and no flags. A  *)
(* pattern is a tree of nodes. Outside the model: flags and inline flags,  *)
(* look-behind, back references, conditional and atomic groups, possessive *)
(* repeats, \N{name} and repeat counts from 2^31 on, for which the outcome *)
(* is NotModelled.                                                         *)
(***************************************************************************)
NotModelled == "<not modelled>"
ReRange(lo, hi) == [kind |-> "range", lo |-> lo, hi |-> hi, cat |-> ""]
ReCategory(cat) == [kind |-> "category", lo |-> 0, hi |-> 0, cat |-> cat]
ReClass(items, negate) == [op |-> "class", set |-> items, parts |-> <<>>, negate |-> negate]
ReLiteral(n) == ReClass({ReRange(n, n)}, FALSE)
ReAny == [op |-> "any", set |-> {}, parts |-> <<>>]
ReRepeat(node, min, max) ==
    [op |-> "repeat", set |-> {}, parts |-> <<node>>, min |-> min, max |-> max]
ReGroup(node) == [op |-> "group", set |-> {}, parts |-> <<node>>]
ReLookahead(node, negate) ==
    [op |-> "lookahead", set |-> {}, parts |-> <<node>>, negate |-> negate]
ReAt(where) == [op |-> where, set |-> {}, parts |-> <<>>]
AtCodes == {"bol", "eol", "bos", "eos", "boundary", "non_boundary"}
\* MAXREPEAT
Unbounded == 0 - 1

ReCat(parts) == [op |-> "cat", set |-> {}, parts |-> parts]
ReAlt(parts) == [op |-> "alt", set |-> {}, parts |-> parts]

\* a (?#comment): no item of the pattern
ReComment == [op |-> "comment", set |-> {}, parts |-> <<>>]

\* what a step of the parser gives: the node, where the next token starts and the
\* group names the pattern has so far
Parsed(node, next) ==
    [ok |-> TRUE, exc |-> "", node |-> node, next |-> next, names |-> {}]
ParseError(exc) ==
    [ok |-> FALSE, exc |-> exc, node |-> ReCat(<<>>), next |-> 0, names |-> {}]
Named(parsed, names) == [parsed EXCEPT !.names = names]

\* source.next: the character at i, "" after the end of the pattern
At(s, i) == IF i >= 1 /\ i <= Len(s) THEN Char(s, i) ELSE ""
\* where the first token c at or after i is: a backslash and the character after
\* it are one token
RECURSIVE FirstToken(_, _, _)
FirstToken(s, i, c) ==
    IF i > Len(s) THEN Len(s) + 1
    ELSE IF Char(s, i) = "\\" THEN FirstToken(s, i + 2, c)
    ELSE IF Char(s, i) = c THEN i
    ELSE FirstToken(s, i + 1, c)

\* _escape and _class_escape: the escape at i (a backslash) as a node
EscapeLiterals(c) ==
    CASE c = "a" -> 7 [] c = "b" -> 8 [] c = "f" -> 12 [] c = "n" -> 10 [] c = "r" -> 13
      [] c = "t" -> 9 [] c = "v" -> 11 [] c = "\\" -> 92
OctDigits == {"0", "1", "2", "3", "4", "5", "6", "7"}
NumericEscape(s, i, in_class) ==
    LET c == Char(s, i + 1)
        hex_end == FirstNotOf(s, i + 2, {x \in {Char(s, j) : j \in (i + 2)..Len(s)} : IsHexDigit(x)})
        oct_end == FirstNotOf(s, i + 2, OctDigits)
        want == IF c = "x" THEN 2 ELSE 4
        octal == SubSeq(s, i + 1, Min({oct_end - 1, i + 3}))
    IN  IF c \in {"x", "u"}
        THEN IF hex_end - (i + 2) < want THEN ParseError("re.error")
             ELSE Parsed(ReLiteral(HexValue(SubSeq(s, i + 2, i + 1 + want))), i + 2 + want)
        ELSE IF OctalValue(octal) > 255 THEN ParseError("re.error")
             ELSE Parsed(ReLiteral(OctalValue(octal)), i + 1 + Len(octal))
AsciiLetters ==
    {chr(n) : n \in (65..90) \cup (97..122)}
ReEscape(s, i, in_class) ==
    LET c == Char(s, i + 1)
    IN  IF i + 1 > Len(s) THEN ParseError("re.error")
        ELSE IF in_class /\ c \in {"a", "b", "f", "n", "r", "t", "v", "\\"}
        THEN Parsed(ReLiteral(EscapeLiterals(c)), i + 2)
        ELSE IF c \in {"d", "D", "s", "S", "w", "W"}
        THEN Parsed(ReClass({ReCategory(c)}, FALSE), i + 2)
        ELSE IF ~in_class /\ c \in {"A", "b", "B", "Z"}
        THEN Parsed(ReAt(CASE c = "A" -> "bos" [] c = "b" -> "boundary"
                           [] c = "B" -> "non_boundary" [] c = "Z" -> "eos"), i + 2)
        ELSE IF c \in {"a", "f", "n", "r", "t", "v", "\\"}
        THEN Parsed(ReLiteral(EscapeLiterals(c)), i + 2)
        ELSE IF c \in {"x", "u"} THEN NumericEscape(s, i, in_class)
        ELSE IF c \in {"U", "N"} THEN ParseError(NotModelled)
        ELSE IF c = "0" \/ (in_class /\ c \in {"1", "2", "3", "4", "5", "6", "7"})
        THEN NumericEscape(s, i, in_class)
        ELSE IF c \in AsciiDigits
        THEN IF in_class THEN ParseError("re.error")
             ELSE IF i + 3 <= Len(s) /\ \A j \in (i + 1)..(i + 3) : Char(s, j) \in OctDigits
             THEN NumericEscape(s, i, in_class)
             ELSE ParseError(NotModelled)
        ELSE IF c \in AsciiLetters THEN ParseError("re.error")
        ELSE Parsed(ReLiteral(ord(c)), i + 2)

\* one member of a character set: at i, a character or an escape
ReSetMember(s, i) ==
    IF Char(s, i) = "\\" THEN ReEscape(s, i, TRUE)
    ELSE Parsed(ReLiteral(ord(Char(s, i))), i + 1)
IsLiteral(node) ==
    \E item \in node.set : node.set = {item} /\ item.kind = "range" /\ item.lo = item.hi
LiteralOf(node) == (CHOOSE item \in node.set : TRUE).lo

\* the members of a character set from i, after [ or [^, up to its ]
RECURSIVE ReSetItems(_, _, _, _)
ReSetItems(s, i, items, empty) ==
    LET range(code1, code2) ==
            IF ~code2.ok THEN code2
            ELSE IF ~IsLiteral(code1.node) \/ ~IsLiteral(code2.node)
            THEN ParseError("re.error")
            ELSE IF LiteralOf(code2.node) < LiteralOf(code1.node)
            THEN ParseError("re.error")
            ELSE ReSetItems(s, code2.next,
                            items \cup {ReRange(LiteralOf(code1.node),
                                                LiteralOf(code2.node))}, FALSE)
        member(code1) ==
            IF ~code1.ok THEN code1
            ELSE IF code1.next <= Len(s) /\ Char(s, code1.next) = "-"
            THEN IF code1.next + 1 > Len(s) THEN ParseError("re.error")
                 ELSE IF Char(s, code1.next + 1) = "]"
                 THEN Parsed(ReClass(items \cup code1.node.set \cup {ReRange(45, 45)}, FALSE),
                             code1.next + 2)
                 ELSE range(code1, ReSetMember(s, code1.next + 1))
            ELSE ReSetItems(s, code1.next, items \cup code1.node.set, FALSE)
    IN  IF i > Len(s) THEN ParseError("re.error")
        ELSE IF Char(s, i) = "]" /\ ~empty THEN Parsed(ReClass(items, FALSE), i + 1)
        ELSE member(ReSetMember(s, i))

ReSetAt(s, i) ==
    LET negate == i + 1 <= Len(s) /\ Char(s, i + 1) = "^"
        class(items) ==
            IF ~items.ok THEN items
            ELSE Parsed(ReClass(items.node.set, negate), items.next)
    IN  class(ReSetItems(s, IF negate THEN i + 2 ELSE i + 1, {}, TRUE))

\* the number written with at most ten digits after its leading zeros, as
\* <<number \div 100000, number % 100000>>
Halves(digits) ==
    LET written == SubSeq(digits, FirstNotOf(digits, 1, {"0"}), Len(digits))
    IN  IF Len(written) > 5
        THEN <<Natural(SubSeq(written, 1, Len(written) - 5)),
               Natural(SubSeq(written, Len(written) - 4, Len(written)))>>
        ELSE <<0, Natural(written)>>
\* whether the number written with the digits is at least high * 100000 + low
AtLeast(digits, high, low) ==
    LET written == SubSeq(digits, FirstNotOf(digits, 1, {"0"}), Len(digits))
        halves == Halves(digits)
    IN  \/ Len(written) > 10
        \/ halves[1] > high
        \/ halves[1] = high /\ halves[2] >= low
\* whether the first number written is less than the second
Below(hi, lo) ==
    \/ Halves(hi)[1] < Halves(lo)[1]
    \/ Halves(hi)[1] = Halves(lo)[1] /\ Halves(hi)[2] < Halves(lo)[2]
\* The count written with the digits. The matcher is applied to texts that are
\* shorter than 2147483647 characters, for which every count from 2147483647
\* gives the same positions: the positions of a repeated item are empty or stay
\* as they are after at most one turn per character of the text.
Count(digits) == IF AtLeast(digits, 21474, 83647) THEN 2147483647 ELSE Natural(digits)

\* the bounds of a repeat written at i, one of * + ? {: `literal` when the { does
\* not start a repeat. A count of MAXREPEAT (4294967295) or more is an
\* OverflowError.
ReBounds(s, i) ==
    LET c == Char(s, i)
        lo_end == FirstNotOf(s, i + 1, AsciiDigits)
        comma == At(s, lo_end) = ","
        hi_end == IF comma THEN FirstNotOf(s, lo_end + 1, AsciiDigits) ELSE lo_end
        lo == SubSeq(s, i + 1, lo_end - 1)
        hi == IF comma THEN SubSeq(s, lo_end + 1, hi_end - 1) ELSE lo
        bounds(min, max, next) ==
            [exc |-> "", literal |-> FALSE, min |-> min, max |-> max, next |-> next]
        failed(exc) == [exc |-> exc, literal |-> FALSE, min |-> 0, max |-> 0, next |-> 0]
    IN  IF c = "?" THEN bounds(0, 1, i + 1)
        ELSE IF c = "*" THEN bounds(0, Unbounded, i + 1)
        ELSE IF c = "+" THEN bounds(1, Unbounded, i + 1)
        ELSE IF At(s, i + 1) = "}" \/ At(s, hi_end) # "}"
        THEN [exc |-> "", literal |-> TRUE, min |-> 0, max |-> 0, next |-> i + 1]
        \* the token after } is read before the counts are looked at
        ELSE IF hi_end + 1 = Len(s) /\ At(s, Len(s)) = "\\" THEN failed("re.error")
        ELSE IF lo # "" /\ AtLeast(lo, 42949, 67295) THEN failed("OverflowError")
        ELSE IF hi # "" /\ AtLeast(hi, 42949, 67295) THEN failed("OverflowError")
        ELSE IF hi # "" /\ lo # "" /\ Below(hi, lo) THEN failed("re.error")
        ELSE bounds(IF lo = "" THEN 0 ELSE Count(lo),
                    IF hi = "" THEN Unbounded ELSE Count(hi), hi_end + 1)

\* str.isidentifier for a name of ASCII characters
isidentifier(name) ==
    /\ name # ""
    /\ Char(name, 1) \in AsciiLetters \cup {"_"}
    /\ \A j \in 1..Len(name) : Char(name, j) \in AsciiLetters \cup AsciiDigits \cup {"_"}

RECURSIVE _parse_sub(_, _, _)
RECURSIVE _parse(_, _, _, _)
\* a group, from its ( at i; `names` are the group names before it
ReGroupAt(s, i, names) ==
    LET extension == At(s, i + 1) = "?"
        kind == At(s, i + 2)
        named == extension /\ kind = "P" /\ At(s, i + 3) = "<"
        reference == extension /\ kind = "P" /\ At(s, i + 3) = "="
        name_end == FirstToken(s, i + 4, IF named THEN ">" ELSE ")")
        name == SubSeq(s, i + 4, name_end - 1)
        comment_end == FirstToken(s, i + 3, ")")
        start == IF ~extension THEN i + 1 ELSE IF named THEN name_end + 1 ELSE i + 3
        group(inner) ==
            IF ~inner.ok THEN inner
            ELSE IF At(s, inner.next) # ")" THEN ParseError("re.error")
            ELSE IF extension /\ kind \in {"=", "!"}
            THEN Named(Parsed(ReLookahead(inner.node, kind = "!"), inner.next + 1), inner.names)
            ELSE IF extension /\ kind = ":"
            THEN Named(Parsed([ReGroup(inner.node) EXCEPT !.op = "noncapturing"],
                              inner.next + 1), inner.names)
            ELSE Named(Parsed(ReGroup(inner.node), inner.next + 1), inner.names)
    IN  IF extension /\ kind = "" THEN ParseError("re.error")
        ELSE IF extension /\ kind = "#"
        THEN IF comment_end > Len(s) THEN ParseError("re.error")
             ELSE Named(Parsed(ReComment, comment_end + 1), names)
        ELSE IF extension /\ kind = "<"
        THEN IF At(s, i + 3) \in {"=", "!"} THEN ParseError(NotModelled)
             ELSE ParseError("re.error")
        ELSE IF extension /\ kind \in {"(", ">", "-", "a", "i", "L", "m", "s", "u", "x"}
        THEN ParseError(NotModelled)
        ELSE IF extension /\ kind \notin {":", "=", "!", "P"} THEN ParseError("re.error")
        ELSE IF extension /\ kind = "P" /\ ~named /\ ~reference THEN ParseError("re.error")
        ELSE IF (named \/ reference) /\ (name_end > Len(s) \/ ~isidentifier(name))
        THEN ParseError("re.error")
        ELSE IF reference
        THEN IF name \notin names THEN ParseError("re.error") ELSE ParseError(NotModelled)
        ELSE IF named /\ name \in names THEN ParseError("re.error")
        ELSE group(_parse_sub(s, start, IF named THEN names \cup {name} ELSE names))

\* _parse: the items of one alternative, from i, after the items already parsed
_parse(s, i, items, names) ==
    LET this == Char(s, i)
        item == items[Len(items)]
        \* the item parsed at i, then the items after it; a comment is no item
        then(parsed, known) ==
            IF ~parsed.ok THEN parsed
            ELSE _parse(s, parsed.next,
                        IF parsed.node.op = "comment" THEN items
                        ELSE Append(items, parsed.node), known)
        group(parsed) == then(parsed, parsed.names)
        \* a repeat of the last item
        repeat(bounds) ==
            LET lazy == At(s, bounds.next) = "?"
                possessive == At(s, bounds.next) = "+"
            IN  IF bounds.exc # "" THEN ParseError(bounds.exc)
                ELSE IF bounds.literal THEN then(Parsed(ReLiteral(ord("{")), i + 1), names)
                ELSE IF items = <<>> \/ item.op \in AtCodes THEN ParseError("re.error")
                ELSE IF item.op = "repeat" THEN ParseError("re.error")
                ELSE IF possessive THEN ParseError(NotModelled)
                ELSE _parse(s, IF lazy THEN bounds.next + 1 ELSE bounds.next,
                            [items EXCEPT ![Len(items)] = ReRepeat(item, bounds.min, bounds.max)],
                            names)
    IN  IF i > Len(s) \/ this \in {"|", ")"} THEN Named(Parsed(ReCat(items), i), names)
        ELSE IF this = "\\" THEN then(ReEscape(s, i, FALSE), names)
        ELSE IF this = "[" THEN then(ReSetAt(s, i), names)
        ELSE IF this \in {"*", "+", "?", "{"} THEN repeat(ReBounds(s, i))
        ELSE IF this = "(" THEN group(ReGroupAt(s, i, names))
        ELSE then(Parsed(IF this = "." THEN ReAny
                         ELSE IF this = "^" THEN ReAt("bol")
                         ELSE IF this = "$" THEN ReAt("eol")
                         ELSE ReLiteral(ord(this)), i + 1), names)

\* _parse_sub: the alternatives a|b|c from i
_parse_sub(s, i, names) ==
    LET either(first, rest) ==
            IF ~rest.ok THEN rest
            ELSE Named(Parsed(ReAlt(<<first.node, rest.node>>), rest.next), rest.names)
        alternatives(first) ==
            IF ~first.ok THEN first
            ELSE IF At(s, first.next) = "|"
            THEN either(first, _parse_sub(s, first.next + 1, first.names))
            ELSE first
    IN  alternatives(_parse(s, i, <<>>, names))

\* re.compile(regex): the pattern, or the exception; what is left after the
\* alternatives can only be a ) that closes nothing
re_compile(regex) ==
    LET compiled(parsed) ==
            IF ~parsed.ok THEN Raised(parsed.exc)
            ELSE IF parsed.next <= Len(regex) THEN Raised("re.error")
            ELSE Returned(parsed.node)
    IN  compiled(_parse_sub(regex, 1, {}))

(***************************************************************************)
(* Matching: Ends(node, s, I) is the set of positions at which a match of  *)
(* the node that starts at a position of I can end. A position i is before *)
(* s[i]; Len(s) + 1 is the end of the string.                              *)
(***************************************************************************)
InSet(node, c) ==
    (\E item \in node.set :
        IF item.kind = "range" THEN item.lo <= ord(c) /\ ord(c) <= item.hi
        ELSE InCategory(item.cat, c)) # node.negate
WordAt(s, i) == i >= 1 /\ i <= Len(s) /\ IsWord(s[i])

RECURSIVE Ends(_, _, _)
RECURSIVE CatEnds(_, _, _)
RECURSIVE PlusEnds(_, _, _, _)
RECURSIVE TimesEnds(_, _, _, _)
RECURSIVE UpToEnds(_, _, _, _)
Ends(node, s, I) ==
    CASE node.op = "class" -> {i + 1 : i \in {j \in I : j <= Len(s) /\ InSet(node, s[j])}}
      [] node.op = "any" -> {i + 1 : i \in {j \in I : j <= Len(s) /\ s[j] # "\n"}}
      [] node.op \in {"bol", "bos"} -> {i \in I : i = 1}
      \* without re.MULTILINE, $ is the end of the string or just before a newline
      \* that ends the string
      [] node.op = "eol" ->
            {i \in I : i = Len(s) + 1 \/ (i = Len(s) /\ s[i] = "\n")}
      [] node.op = "eos" -> {i \in I : i = Len(s) + 1}
      [] node.op = "boundary" -> {i \in I : WordAt(s, i - 1) # WordAt(s, i)}
      \* in an empty string neither \b nor \B matches
      [] node.op = "non_boundary" ->
            {i \in I : Len(s) > 0 /\ WordAt(s, i - 1) = WordAt(s, i)}
      [] node.op = "cat" -> CatEnds(node.parts, s, I)
      [] node.op = "alt" -> UNION {Ends(node.parts[k], s, I) : k \in DOMAIN node.parts}
      [] node.op \in {"group", "noncapturing"} -> Ends(node.parts[1], s, I)
      [] node.op = "lookahead" ->
            {i \in I : (Ends(node.parts[1], s, {i}) # {}) # node.negate}
      [] node.op = "repeat" ->
            LET least == TimesEnds(node.parts[1], s, I, node.min)
            IN  IF node.max = Unbounded THEN least \cup PlusEnds(node.parts[1], s, least, {})
                ELSE UpToEnds(node.parts[1], s, least, node.max - node.min)

CatEnds(parts, s, I) ==
    IF parts = <<>> THEN I ELSE CatEnds(Tail(parts), s, Ends(Head(parts), s, I))

\* one or more matches of the node, one after another
PlusEnds(node, s, I, found) ==
    LET once == Ends(node, s, I) \ found
    IN  IF once = {} THEN found ELSE PlusEnds(node, s, once, found \cup once)

\* exactly n matches, and at most n
\* (once the positions are those of the turn before, they stay)
TimesEnds(node, s, I, n) ==
    LET again(once) == IF once = I THEN I ELSE TimesEnds(node, s, once, n - 1)
    IN  IF n = 0 \/ I = {} THEN I ELSE again(Ends(node, s, I))
UpToEnds(node, s, I, n) ==
    LET again(once) == IF once = I THEN I ELSE I \cup UpToEnds(node, s, once, n - 1)
    IN  IF n = 0 \/ I = {} THEN I ELSE again(Ends(node, s, I))

\* pattern.match(s) is not None: the pattern matches at the start of s
re_match(pattern, s) == Ends(pattern, s, {1}) # {}

(***************************************************************************)
(* is_valid_for of the nine classes. A call is `args`: no argument, or one *)
(* dataset tree. The value is "True", "False" or "None", or the exception  *)
(* raised.                                                                 *)
(***************************************************************************)
Bool(b) == IF b THEN "True" ELSE "False"

\* dataset_tree.find(xpath): the first element findall returns, or None
NoElement == XmlElement("", NoneText, {}, <<>>, <<0>>)
find(dataset_tree, xpath) ==
    LET first(found) ==
            IF ~found.ok THEN found
            ELSE Returned(IF found.val = <<>> THEN NoElement ELSE found.val[1])
    IN  first(findall(dataset_tree, xpath))

\* RuleNoMoreThanOne.is_valid_for (lines 191-202)
RuleNoMoreThanOne_is_valid_for(r, dataset_tree) ==
    LET paths == Get(r.case, "paths").val.l
        counted(results) ==
            IF ~results.ok THEN results.exc ELSE Bool(Len(results.val) <= 1)
    IN  IF ~Has(r.case, "paths") THEN "KeyError"
        ELSE IF paths = <<>> THEN "IndexError"
        ELSE counted(findall(dataset_tree, Rule__extract_xpath_case(r, paths[1])))

\* RuleAtLeastOne.is_valid_for (lines 221-232)
RuleAtLeastOne_is_valid_for(r, dataset_tree) ==
    LET paths == Get(r.case, "paths").val.l
        found(first) ==
            IF ~first.ok THEN first.exc ELSE Bool(first.val # NoElement)
    IN  IF ~Has(r.case, "paths") THEN "KeyError"
        ELSE IF paths = <<>> THEN "IndexError"
        ELSE found(find(dataset_tree, Rule__extract_xpath_case(r, paths[1])))

\* pattern.match(result.text) of line 286: a text of None is no string
ResultMatches(pattern, element) ==
    IF element.text.is_none THEN "TypeError" ELSE Bool(re_match(pattern, element.text.chars))

\* The loops of lines 284-286 from entry p of `paths`: the first turn of the inner
\* loop returns; with no node at all the function ends without a return.
RECURSIVE RegexLoop(_, _, _, _)
RegexLoop(r, dataset_tree, pattern, p) ==
    LET paths == Get(r.case, "paths").val.l
        inner(results) ==
            IF ~results.ok THEN results.exc
            ELSE IF results.val = <<>> THEN RegexLoop(r, dataset_tree, pattern, p + 1)
            ELSE ResultMatches(pattern, results.val[1])
    IN  IF p > Len(paths) THEN "None"
        ELSE inner(findall(dataset_tree, Rule__extract_xpath_case(r, paths[p])))

\* RuleRegexMatches.is_valid_for (lines 279-287): the pattern is compiled before
\* the loops
RuleRegexMatches_is_valid_for(r, dataset_tree) ==
    LET loops(pattern) ==
            IF ~pattern.ok THEN pattern.exc
            ELSE RegexLoop(r, dataset_tree, pattern.val, 1)
    IN  IF ~Has(r.case, "paths") \/ ~Has(r.case, "regex") THEN "KeyError"
        ELSE loops(re_compile(Get(r.case, "regex").val.s))

\* RuleRegexNoMatches.is_valid_for (lines 304-314)
RuleRegexNoMatches_is_valid_for(r, dataset_tree) == "True"

\* RuleStartsWith, RuleSum and RuleUnique define is_valid_for(self)
RuleStartsWith_is_valid_for(r) == "True"
RuleSum_is_valid_for(r) == "True"
RuleUnique_is_valid_for(r) == "True"

\* rule.is_valid_for(*args): RuleDateOrder and RuleDependent have no such method;
\* a call with the wrong number of arguments raises TypeError
is_valid_for(r, args) ==
    CASE r.cls \in {"RuleDateOrder", "RuleDependent", "Rule"} -> "AttributeError"
      [] r.cls = "RuleNoMoreThanOne" ->
            IF Len(args) # 1 THEN "TypeError" ELSE RuleNoMoreThanOne_is_valid_for(r, args[1])
      [] r.cls = "RuleAtLeastOne" ->
            IF Len(args) # 1 THEN "TypeError" ELSE RuleAtLeastOne_is_valid_for(r, args[1])
      [] r.cls = "RuleRegexMatches" ->
            IF Len(args) # 1 THEN "TypeError" ELSE RuleRegexMatches_is_valid_for(r, args[1])
      [] r.cls = "RuleRegexNoMatches" ->
            IF Len(args) # 1 THEN "TypeError" ELSE RuleRegexNoMatches_is_valid_for(r, args[1])
      [] r.cls = "RuleStartsWith" ->
            IF Len(args) # 0 THEN "TypeError" ELSE RuleStartsWith_is_valid_for(r)
      [] r.cls = "RuleSum" ->
            IF Len(args) # 0 THEN "TypeError" ELSE RuleSum_is_valid_for(r)
      [] r.cls = "RuleUnique" ->
            IF Len(args) # 0 THEN "TypeError" ELSE RuleUnique_is_valid_for(r)

(***************************************************************************)
(* class Version (versions.py lines 5-26).                                 *)
(***************************************************************************)
\* re.compile(r'^((1\.0[1-9])|(((1\d+)|([2-9](\d+)?))\.0[1-9](\d+)?))$'), line 23
iativer_re == re_compile("^((1\\.0[1-9])|(((1\\d+)|([2-9](\\d+)?))\\.0[1-9](\\d+)?))$")

\* A Python value handed to Version: its type and, for a str, its characters
\* (for another type, the characters that write the value).
Value(type, chars) == [type |-> type, chars |-> chars]
isinstance_str(value) == value.type = "str"

\* A variant of __init__ that turns its argument into a string instead of
\* refusing a value that is not one.
Version___init___coercing(version_string) ==
    IF ~re_match(iativer_re.val, version_string.chars) THEN Raised("ValueError")
    ELSE Returned(<<>>)

\* Version.__init__: the attributes of the object built (the method sets none),
\* or the exception raised.
Version___init__(version_string) ==
    IF ~isinstance_str(version_string) THEN Raised("TypeError")
    ELSE IF ~re_match(iativer_re.val, version_string.chars) THEN Raised("ValueError")
    ELSE Returned(<<>>)

(***************************************************************************)
(* iati/core/default.py. Its collaborators are outside the file: the       *)
(* versions of the Standard (iati.core.constants), the files of a version  *)
(* (iati.core.resources) and the classes Codelist and Schema. A version    *)
(* argument is a Python value: None, a string, or a value of another type. *)
(***************************************************************************)
None == [type |-> "NoneType", s |-> ""]
Str(s) == [type |-> "str", s |-> s]
Float(s) == [type |-> "float", s |-> s]

\* iati.core.constants
STANDARD_VERSIONS == <<Str("1.05"), Str("2.02")>>
STANDARD_VERSION_LATEST == Str("2.02")

\* the values that can be a key of a cache
VersionKeys == {Str("1.05"), Str("2.02"), Str("9.99"), Float("2.02")}
PopulationKeys == {"populated", "unpopulated"}
RootElementNames == {"iati-activities", "iati-organisations"}

\* iati.core.resources.get_all_codelist_paths(version), each path cut down to the
\* name of its Codelist (lines 140-141), and the codes its file holds
CodelistNames == {"Country", "Sector"}
get_all_codelist_names(ver) ==
    IF \E i \in DOMAIN STANDARD_VERSIONS : STANDARD_VERSIONS[i] = ver
    THEN <<"Country", "Sector">> ELSE <<>>
FileCodes(name, ver) ==
    CASE name = "Country" /\ ver = Str("1.05") -> {"AF"}
      [] name = "Country" -> {"AF", "AL"}
      [] OTHER -> {"111"}

\* iati.core.Codelist(name, xml=xml_str) and schema_class(schema_paths[0]): a new
\* object. A Codelist has a set of codes; a Schema has a set of Codelists (their
\* indices in the heap), empty when the Schema is made.
CodelistObject(name, codes) ==
    [kind |-> "Codelist", name |-> name, codes |-> codes, codelists |-> {}]
SchemaObject(root) ==
    [kind |-> "Schema", name |-> root, codes |-> {}, codelists |-> {}]

\* a defaultdict entry: `has` says the key is there, d[k] = 0 that the inner
\* dictionary has no key k
NoEntry(keys) == [has |-> FALSE, d |-> [k \in keys |-> 0]]
DictKeys(entry) == {k \in DOMAIN entry.d : entry.d[k] # 0}
DictValues(entry) == {entry.d[k] : k \in DictKeys(entry)}

\* the state default.py works on: its two caches and the objects
Store(cache, schemas, objects) == [cache |-> cache, schemas |-> schemas, heap |-> objects]

\* A variant of get_default_version_if_none without the test of line 33.
get_default_version_if_none_unchecked(ver) ==
    IF ver = None THEN Returned(STANDARD_VERSION_LATEST) ELSE Returned(ver)

\* get_default_version_if_none (lines 18-35)
get_default_version_if_none(ver) ==
    IF ver = None THEN Returned(STANDARD_VERSION_LATEST)
    ELSE IF ~\E i \in DOMAIN STANDARD_VERSIONS : STANDARD_VERSIONS[i] = ver
         THEN Raised("ValueError")
    ELSE Returned(ver)

\* the loop of _codelists (lines 139-145) from its i-th path on
RECURSIVE LoadCodelists(_, _, _, _, _)
LoadCodelists(names, i, ver, use_cache, st) ==
    IF i > Len(names) THEN st
    ELSE IF st.cache[ver].d[names[i]] = 0 \/ ~use_cache
         THEN LoadCodelists(names, i + 1, ver, use_cache,
                  [st EXCEPT !.heap = Append(@, CodelistObject(names[i], FileCodes(names[i], ver))),
                             !.cache[ver].has = TRUE,
                             !.cache[ver].d[names[i]] = Len(st.heap) + 1])
         ELSE LoadCodelists(names, i + 1, ver, use_cache, [st EXCEPT !.cache[ver].has = TRUE])

\* _codelists (lines 114-147): val is the key of the dictionary returned, which is
\* the cache's own _CODELISTS[version]
_codelists(ver, use_cache, st) ==
    LET resolved == get_default_version_if_none(ver)
    IN  IF ~resolved.ok THEN [ok |-> FALSE, exc |-> resolved.exc, st |-> st, val |-> None]
        ELSE [ok |-> TRUE, exc |-> "",
              st |-> [LoadCodelists(get_all_codelist_names(resolved.val), 1, resolved.val,
                                    use_cache, st)
                        EXCEPT !.cache[resolved.val].has = TRUE],
              val |-> resolved.val]

\* codelists (lines 150-163)
codelists(ver, st) == _codelists(ver, FALSE, st)

\* codelist (lines 80-111): a deepcopy of the cached Codelist, a new object; a
\* name the cache does not hold raises KeyError, turned into ValueError
codelist(name, ver, st) ==
    LET found == _codelists(ver, TRUE, st)
    IN  IF ~found.ok THEN [ok |-> FALSE, exc |-> found.exc, st |-> st, val |-> 0]
        ELSE IF name \notin DictKeys(found.st.cache[found.val])
             THEN [ok |-> FALSE, exc |-> "ValueError", st |-> found.st, val |-> 0]
        ELSE [ok |-> TRUE, exc |-> "",
              st |-> [found.st EXCEPT !.heap =
                         Append(@, found.st.heap[found.st.cache[found.val].d[name]])],
              val |-> Len(found.st.heap) + 1]

\* _populate_schema (lines 194-219): adds every default Codelist to the Schema
\* and returns the Schema; a version that is none of the Standard raises
\* ValueError (line 213) and leaves the Schema as it was
_populate_schema(schema, ver, st) ==
    LET added(codelists_to_add) ==
            IF ~codelists_to_add.ok
            THEN [ok |-> FALSE, exc |-> codelists_to_add.exc, st |-> codelists_to_add.st,
                  val |-> 0]
            ELSE [ok |-> TRUE, exc |-> "",
                  st |-> [codelists_to_add.st EXCEPT !.heap[schema].codelists =
                             @ \cup DictValues(codelists_to_add.st.cache[codelists_to_add.val])],
                  val |-> schema]
        populated(resolved) ==
            IF ~resolved.ok THEN [ok |-> FALSE, exc |-> resolved.exc, st |-> st, val |-> 0]
            ELSE added(codelists(resolved.val, st))
    IN  populated(get_default_version_if_none(ver))

\* A variant of _schema that uses the cache unless told otherwise.
_schema_from_cache(root, ver, populate, use_cache, st) ==
    LET population_key == IF populate THEN "populated" ELSE "unpopulated"
        resolved == get_default_version_if_none(ver)
    IN  IF ~resolved.ok THEN [ok |-> FALSE, exc |-> resolved.exc, st |-> st, val |-> 0]
        ELSE IF st.schemas[<<resolved.val, population_key>>].d[root] = 0
        THEN LET made == [st EXCEPT !.heap = Append(@, SchemaObject(root))]
                 schema == Len(st.heap) + 1
                 populated == IF populate THEN _populate_schema(schema, resolved.val, made)
                              ELSE [ok |-> TRUE, exc |-> "", st |-> made, val |-> schema]
             IN  IF ~populated.ok THEN populated
                 ELSE [ok |-> TRUE, exc |-> "",
                       st |-> [populated.st EXCEPT !.schemas[<<resolved.val, population_key>>] =
                                  [has |-> TRUE, d |-> [@.d EXCEPT ![root] = populated.val]]],
                       val |-> populated.val]
        ELSE [ok |-> TRUE, exc |-> "", st |-> st,
              val |-> st.schemas[<<resolved.val, population_key>>].d[root]]

\* _schema (lines 222-251); path_func and schema_class are given by the root
\* element name of the class
_schema(root, ver, populate, use_cache, st) ==
    LET population_key == IF populate THEN "populated" ELSE "unpopulated"
        resolved == get_default_version_if_none(ver)
    IN  IF ~resolved.ok THEN [ok |-> FALSE, exc |-> resolved.exc, st |-> st, val |-> 0]
        ELSE IF st.schemas[<<resolved.val, population_key>>].d[root] = 0 \/ ~use_cache
        THEN LET made == [st EXCEPT !.heap = Append(@, SchemaObject(root))]
                 schema == Len(st.heap) + 1
                 populated == IF populate THEN _populate_schema(schema, resolved.val, made)
                              ELSE [ok |-> TRUE, exc |-> "", st |-> made, val |-> schema]
             IN  IF ~populated.ok THEN populated
                 ELSE [ok |-> TRUE, exc |-> "",
                       st |-> [populated.st EXCEPT !.schemas[<<resolved.val, population_key>>] =
                                  [has |-> TRUE, d |-> [@.d EXCEPT ![root] = populated.val]]],
                       val |-> populated.val]
        ELSE [ok |-> TRUE, exc |-> "",
              st |-> [st EXCEPT !.schemas[<<resolved.val, population_key>>].has = TRUE],
              val |-> st.schemas[<<resolved.val, population_key>>].d[root]]

\* activity_schema (lines 254-268) and organisation_schema (lines 271-285)
activity_schema(ver, populate, st) == _schema("iati-activities", ver, populate, FALSE, st)
organisation_schema(ver, populate, st) ==
    _schema("iati-organisations", ver, populate, FALSE, st)

(***************************************************************************)
(* The inputs: Ruleset texts and the arguments of Rule constructors.       *)
(***************************************************************************)
Bases == {"//iati-activity", "//iati-organisation"}

\* a case with its `paths` only
CasePaths == <<Pair("paths", ListV(<<"sector">>))>>
\* the same with a condition
CaseCondition == <<Pair("paths", ListV(<<"sector">>)), Pair("condition", StrV("@x"))>>
\* a case without `paths`
CaseNoPaths == <<Pair("condition", StrV("@x"))>>
\* a case that writes `paths` twice
CaseTwice == <<Pair("paths", ListV(<<"sector">>)), Pair("paths", ListV(<<"iati-identifier">>))>>
\* a case of a regex rule
CaseRegex == <<Pair("paths", ListV(<<"iati-identifier">>)), Pair("regex", StrV("[^/&|?]+"))>>
\* a case whose `paths` is a string
CaseBadType == <<Pair("paths", StrV("sector"))>>

TextCases == {CasePaths, CaseCondition, CaseNoPaths, CaseTwice, CaseRegex, CaseBadType}

\* the rule type names a text uses: two that are registered, one that is not
TextTypes == {"atleast_one", "regex_matches", "bogus"}

CasesObject(cases) == <<Pair("cases", cases)>>

\* a rule type object without `cases`
NoCasesObject == <<Pair("other", <<CasePaths>>)>>

TextCasesObjects ==
    {CasesObject(cases) : cases \in SeqsUpTo(TextCases, MaxCases)}
    \cup {CasesObject(<<CasePaths>>) \o CasesObject(<<CasePaths>>)}
    \cup {<<>>, NoCasesObject}

TypeEntries == {Pair(t, o) : t \in TextTypes, o \in TextCasesObjects}

\* the entries written beside another one in a two-entry object
SiblingTypeEntries ==
    {Pair("atleast_one", CasesObject(<<CasePaths>>)),
     Pair("regex_matches", CasesObject(<<CasePaths>>)),
     Pair("bogus", CasesObject(<<CasePaths>>)),
     Pair("bogus", CasesObject(<<>>)),
     Pair("bogus", NoCasesObject)}

RuleObjects ==
    {<<e>> : e \in TypeEntries}
    \cup {<<e, s>> : e \in TypeEntries, s \in SiblingTypeEntries}
    \cup {<<s, e>> : e \in TypeEntries, s \in SiblingTypeEntries}

SiblingBaseEntries ==
    {Pair(b, <<Pair("atleast_one", CasesObject(<<CasePaths>>))>>) : b \in Bases}

RulesetTexts ==
    {<<Pair(b, o)>> : b \in Bases, o \in RuleObjects}
    \cup {<<Pair(b, o), s>> : b \in Bases, o \in RuleObjects, s \in SiblingBaseEntries}

\* the cases handed to a Rule constructor directly
CaseTwoPaths == <<Pair("paths", ListV(<<"sector", "transaction/sector">>))>>
CaseTwoPathsSwapped == <<Pair("paths", ListV(<<"transaction/sector", "sector">>))>>
CaseRegexTwoPaths ==
    <<Pair("paths", ListV(<<"sector", "iati-identifier">>)), Pair("regex", StrV("[^/&|?]+"))>>
CaseRegexOnly == <<Pair("regex", StrV("[^/&|?]+"))>>
CaseSum ==
    <<Pair("paths", ListV(<<"recipient-country/@percentage", "recipient-region/@percentage">>)),
      Pair("sum", NumV(100))>>
CaseSumOnly == <<Pair("sum", NumV(100))>>
CaseDates ==
    <<Pair("paths", ListV(<<"activity-date[@type='1']/@iso-date",
                            "activity-date[@type='3']/@iso-date">>))>>
CaseStart == <<Pair("paths", ListV(<<"iati-identifier">>)), Pair("start", StrV("AA"))>>
\* a path that starts with a separator
CaseDescendant == <<Pair("paths", ListV(<<"/sector">>))>>
\* the regex of test_default.py line 171 as its text has it, and two others
CaseRegexEscaped ==
    <<Pair("paths", ListV(<<"iati-identifier">>)), Pair("regex", StrV("[^\\/\\&\\|\\?]+"))>>
CaseRegexPlus == <<Pair("paths", ListV(<<"iati-identifier">>)), Pair("regex", StrV("A+"))>>
CaseRegexBad == <<Pair("paths", ListV(<<"iati-identifier">>)), Pair("regex", StrV("["))>>
\* an attribute step after a path of elements
CaseRegexAttribute ==
    <<Pair("paths", ListV(<<"sector", "recipient-country/@percentage">>)),
      Pair("regex", StrV("[^/&|?]+"))>>

ClassCases(cls) ==
    {CaseNoPaths, CaseBadType, CasePaths}
    \cup CASE cls \in {"RuleNoMoreThanOne", "RuleAtLeastOne"} ->
                {CaseCondition, CaseTwoPaths, CaseTwoPathsSwapped, CaseDescendant, CaseSum,
                 CaseDates}
           [] cls = "RuleRegexMatches" ->
                {CaseRegex, CaseRegexTwoPaths, CaseRegexOnly, CaseRegexEscaped, CaseRegexPlus,
                 CaseRegexBad, CaseRegexAttribute}
           [] cls = "RuleRegexNoMatches" -> {CaseRegex, CaseRegexOnly}
           [] cls = "RuleSum" -> {CaseSum, CaseSumOnly}
           [] cls = "RuleDateOrder" -> {CaseDates}
           [] cls = "RuleStartsWith" -> {CaseStart}
           [] OTHER -> {}

RulesetCall(ruleset_str) ==
    [op |-> "Ruleset", ruleset_str |-> ruleset_str, cls |-> "", xpath_base |-> "", case |-> <<>>]
RuleCall(cls, xpath_base, case) ==
    [op |-> "Rule", ruleset_str |-> <<>>, cls |-> cls, xpath_base |-> xpath_base, case |-> case]

NoResult == "<none>"

\* XPath bases and relative paths that a normalisation would change
OtherBases == {"//iati-activity/", ""}
PathArguments == {"sector", "/sector", "sector/", "", "a b"}
NoPath == "<none>"

\* The arguments of Version: every string of at most MaxVersionLen characters,
\* one of them a decimal digit outside ASCII, and values that are not strings.
VersionChars == {"0", "1", "2", ".", " ", "\n", "a", "U+0663"}
VersionStrings == {Value("str", chars) : chars \in SeqsUpTo(VersionChars, MaxVersionLen)}
NonStrings ==
    {Value("int", <<"1", "0", "1">>),
     Value("float", <<"1", ".", "0", "1">>),
     Value("bytes", <<"1", ".", "0", "1">>),
     Value("list", <<"1", ".", "0", "1">>),
     Value("list", <<>>),
     Value("NoneType", <<>>)}
NoValue == Value("", <<>>)
VersionCall ==
    [op |-> "Version", ruleset_str |-> <<>>, cls |-> "", xpath_base |-> "", case |-> <<>>]
NoVersion == [status |-> "none", attributes |-> <<>>]

\* The arguments of the calls to default.py, and what a caller adds to what it
\* was given.
VersionArguments == {None} \cup VersionKeys
NameArguments == {"Country", "bogus"}
NewCode == "new code value"
\* a Codelist of the caller's own, in no heap of default.py
CodelistNonDefault == 0
NoCall ==
    [op |-> "", name |-> "", ver |-> None, populate |-> FALSE, status |-> "none", val |-> 0]
DefaultCall(op, name, ver, populate, outcome) ==
    [op |-> op, name |-> name, ver |-> ver, populate |-> populate,
     status |-> IF outcome.ok THEN "ok" ELSE outcome.exc, val |-> outcome.val]

(***************************************************************************)
(* The state machine.                                                      *)
(***************************************************************************)
\* default.py as the import leaves it: both caches empty, no object made
DefaultLoaded ==
    /\ _CODELISTS = [v \in VersionKeys |-> NoEntry(CodelistNames)]
    /\ _SCHEMAS = [k \in VersionKeys \X PopulationKeys |-> NoEntry(RootElementNames)]
    /\ heap = <<>>
    /\ handles = {}
    /\ last = NoCall
    /\ calls = 0
    /\ meta_schema = RulesetSchemaResource

InitRules ==
    /\ pc = "start"
    /\ call \in {RulesetCall(t) : t \in RulesetTexts}
                \cup UNION {{RuleCall(cls, "//iati-activity", c) : c \in ClassCases(cls)} :
                             cls \in Classes \cup {"RuleUnregistered"}}
                \cup {RuleCall(cls, b, CasePaths) :
                         cls \in {"RuleAtLeastOne", "RuleNoMoreThanOne"}, b \in OtherBases}
                \cup {RuleCall("RuleRegexMatches", b, CaseRegex) : b \in OtherBases}
    /\ ruleset = NoRuleset
    /\ rule = [status |-> "none", obj |-> NoRule]
    /\ tree = <<>>
    /\ result = NoResult
    /\ argument = NoValue
    /\ version = NoVersion
    /\ relative_path = NoPath
    /\ full_path = NoPath
    /\ DefaultLoaded

\* Ruleset(ruleset_str): validate_ruleset calls the provider when the text was
\* loaded, and every Rule constructor calls it again
RulesetInit ==
    /\ pc = "start"
    /\ call.op = "Ruleset"
    /\ \E keeps \in BOOLEAN :
          /\ ruleset' = Ruleset___init__(call.ruleset_str, ruleset_schema(keeps, meta_schema))
          /\ meta_schema' =
                IF ~Ruleset_loads(call.ruleset_str).ok THEN meta_schema
                ELSE AfterRules(Triples(Ruleset_loads(call.ruleset_str).val),
                                ruleset'.constructed, ruleset_schema(keeps, meta_schema), keeps)
    /\ pc' = IF ruleset'.status = "ok" THEN "constructed" ELSE "failed"
    /\ UNCHANGED <<call, rule, tree, result, argument, version, relative_path, full_path>>
    /\ UNCHANGED defaultVars

\* ruleset.set_rules() on a Ruleset that was constructed: the Rules of the
\* definition are constructed once more and added to `rules`, which is not
\* emptied; each new Rule is a new object
SetRules ==
    /\ pc = "constructed"
    /\ ruleset.status = "ok"
    /\ calls < MaxCalls
    /\ calls' = calls + 1
    /\ LET set == AddRules(Triples(ruleset.ruleset), 1, ruleset.rules, ruleset.constructed)
       IN  /\ ruleset' = [ruleset EXCEPT !.rules = set.rules,
                                         !.constructed = @ + set.constructed]
           /\ result' = IF set.exc # "" THEN set.exc ELSE "None"
           /\ \E keeps \in BOOLEAN :
                 meta_schema' = AfterRules(Triples(ruleset.ruleset), set.constructed,
                                           meta_schema, keeps)
    /\ UNCHANGED <<pc, call, rule, tree, argument, version, relative_path, full_path>>
    /\ UNCHANGED <<_CODELISTS, _SCHEMAS, heap, handles, last>>

\* cls(xpath_base, case), for a subclass of Rule or Rule itself
RuleInit ==
    /\ pc = "start"
    /\ call.op = "Rule"
    /\ LET new == Rule___init__(call.cls, call.xpath_base, call.case, 1)
       IN  /\ rule' = [status |-> IF new.ok THEN "ok" ELSE new.exc, obj |-> new.val]
           /\ pc' = IF new.ok THEN "constructed" ELSE "failed"
    /\ \E keeps \in BOOLEAN :
          meta_schema' = Rule__ruleset_schema_section_assigns(
                             ClassName(call.cls), ruleset_schema(keeps, meta_schema))
    /\ UNCHANGED <<call, ruleset, tree, result, argument, version, relative_path, full_path>>
    /\ UNCHANGED defaultVars

\* rule.is_valid_for(*args) on a Rule that was constructed
IsValidFor ==
    /\ pc = "constructed"
    /\ rule.status = "ok"
    /\ \E args \in {<<>>} \cup {<<t>> : t \in Trees} :
          /\ tree' = args
          /\ result' = is_valid_for(rule.obj, args)
    /\ pc' = "evaluated"
    /\ UNCHANGED <<call, ruleset, rule, argument, version, relative_path, full_path>>
    /\ UNCHANGED defaultVars
    /\ UNCHANGED schemaVars

\* Version(version_string)
VersionInit ==
    /\ pc = "start"
    /\ call.op = "Version"
    /\ LET new == Version___init__(argument)
       IN  /\ version' = [status |-> IF new.ok THEN "ok" ELSE new.exc, attributes |-> new.val]
           /\ pc' = IF new.ok THEN "constructed" ELSE "failed"
    /\ UNCHANGED <<call, ruleset, rule, tree, result, argument, relative_path, full_path>>
    /\ UNCHANGED defaultVars
    /\ UNCHANGED schemaVars

InitVersions ==
    /\ pc = "start"
    /\ call = VersionCall
    /\ ruleset = NoRuleset
    /\ rule = [status |-> "none", obj |-> NoRule]
    /\ tree = <<>>
    /\ result = NoResult
    /\ argument \in VersionStrings \cup NonStrings
    /\ version = NoVersion
    /\ relative_path = NoPath
    /\ full_path = NoPath
    /\ DefaultLoaded

Init == InitRules \/ InitVersions

\* rule._extract_xpath_case(path) on a Rule that was constructed
ExtractXpathCase ==
    /\ pc = "constructed"
    /\ rule.status = "ok"
    /\ \E p \in PathArguments :
          /\ relative_path' = p
          /\ full_path' = Rule__extract_xpath_case(rule.obj, p)
    /\ pc' = "extracted"
    /\ UNCHANGED <<call, ruleset, rule, tree, result, argument, version>>
    /\ UNCHANGED defaultVars
    /\ UNCHANGED schemaVars

Next == RulesetInit \/ SetRules \/ RuleInit \/ IsValidFor \/ VersionInit \/ ExtractXpathCase

Spec == Init /\ [][Next]_vars

(***************************************************************************)
(* A caller that constructs Rules and Rulesets one after another, all of   *)
(* them with the one meta-schema provider.                                 *)
(***************************************************************************)
SchemaRulesetTexts == {<<Pair("//iati-activity", <<e>>)>> : e \in TypeEntries}
ConstructionCalls ==
    {RulesetCall(t) : t \in SchemaRulesetTexts}
    \cup UNION {{RuleCall(cls, "//iati-activity", c) : c \in ClassCases(cls)} :
                 cls \in Classes \cup {"RuleUnregistered"}}

InitSchema ==
    /\ pc = "start"
    /\ call \in ConstructionCalls
    /\ ruleset = NoRuleset
    /\ rule = [status |-> "none", obj |-> NoRule]
    /\ tree = <<>>
    /\ result = NoResult
    /\ argument = NoValue
    /\ version = NoVersion
    /\ relative_path = NoPath
    /\ full_path = NoPath
    /\ DefaultLoaded

\* the caller drops what it was given and asks for the next construction
NextConstruction ==
    /\ pc \in {"constructed", "failed"}
    /\ calls < MaxCalls
    /\ calls' = calls + 1
    /\ pc' = "start"
    /\ call' \in ConstructionCalls
    /\ ruleset' = NoRuleset
    /\ rule' = [status |-> "none", obj |-> NoRule]
    /\ UNCHANGED <<tree, result, argument, version, relative_path, full_path>>
    /\ UNCHANGED <<_CODELISTS, _SCHEMAS, heap, handles, last>>
    /\ UNCHANGED schemaVars

NextSchema == RulesetInit \/ SetRules \/ RuleInit \/ NextConstruction

SpecSchema == InitSchema /\ [][NextSchema]_vars

(***************************************************************************)
(* The callers of default.py: a process that calls its public functions    *)
(* and changes the objects it was given.                                   *)
(***************************************************************************)
InitDefault ==
    /\ pc = "start"
    /\ call = [op |-> "default", ruleset_str |-> <<>>, cls |-> "", xpath_base |-> "",
               case |-> <<>>]
    /\ ruleset = NoRuleset
    /\ rule = [status |-> "none", obj |-> NoRule]
    /\ tree = <<>>
    /\ result = NoResult
    /\ argument = NoValue
    /\ version = NoVersion
    /\ relative_path = NoPath
    /\ full_path = NoPath
    /\ DefaultLoaded

\* what a call leaves behind: the caches, the objects, and the outcome
Leaves(op, name, ver, populate, outcome, given) ==
    /\ _CODELISTS' = outcome.st.cache
    /\ _SCHEMAS' = outcome.st.schemas
    /\ heap' = outcome.st.heap
    /\ handles' = IF outcome.ok THEN handles \cup given ELSE handles
    /\ last' = DefaultCall(op, name, ver, populate, outcome)
    /\ calls' = calls + 1
    /\ UNCHANGED rulesVars
    /\ UNCHANGED schemaVars

\* get_default_version_if_none(version)
GetDefaultVersionIfNone ==
    /\ calls < MaxCalls
    /\ \E ver \in VersionArguments :
          LET resolved == get_default_version_if_none(ver)
          IN  Leaves("get_default_version_if_none", "", ver, FALSE,
                     [ok |-> resolved.ok, exc |-> resolved.exc,
                      st |-> Store(_CODELISTS, _SCHEMAS, heap), val |-> 0], {})

\* codelist(name, version)
CodelistCall ==
    /\ calls < MaxCalls
    /\ \E name \in NameArguments, ver \in VersionArguments :
          LET outcome == codelist(name, ver, Store(_CODELISTS, _SCHEMAS, heap))
          IN  Leaves("codelist", name, ver, FALSE, outcome, {outcome.val})

\* codelists(version): the caller is given the cache's dictionary, and with it the
\* Codelists it holds
CodelistsCall ==
    /\ calls < MaxCalls
    /\ \E ver \in VersionArguments :
          LET found == codelists(ver, Store(_CODELISTS, _SCHEMAS, heap))
          IN  Leaves("codelists", "", ver, FALSE,
                     [ok |-> found.ok, exc |-> found.exc, st |-> found.st, val |-> 0],
                     IF found.ok THEN DictValues(found.st.cache[found.val]) ELSE {})

\* What the caller of a schema function is given: the Schema and, through its
\* `codelists`, the Codelists that _populate_schema put there, which are the
\* objects the cache of Codelists holds.
Given(outcome) ==
    IF outcome.ok
    THEN {outcome.val} \cup (outcome.st.heap[outcome.val].codelists \ {CodelistNonDefault})
    ELSE {}

\* activity_schema(version, populate)
ActivitySchemaCall ==
    /\ calls < MaxCalls
    /\ \E ver \in VersionArguments, populate \in BOOLEAN :
          LET outcome == activity_schema(ver, populate, Store(_CODELISTS, _SCHEMAS, heap))
          IN  Leaves("activity_schema", "", ver, populate, outcome, Given(outcome))

\* organisation_schema(version, populate)
OrganisationSchemaCall ==
    /\ calls < MaxCalls
    /\ \E ver \in VersionArguments, populate \in BOOLEAN :
          LET outcome == organisation_schema(ver, populate, Store(_CODELISTS, _SCHEMAS, heap))
          IN  Leaves("organisation_schema", "", ver, populate, outcome, Given(outcome))

\* a caller adds a Code to a Codelist it was given: codelist.codes.add(new_code)
AddCode ==
    /\ calls < MaxCalls
    /\ \E h \in handles :
          /\ heap[h].kind = "Codelist"
          /\ heap' = [heap EXCEPT ![h].codes = @ \cup {NewCode}]
          /\ last' = [NoCall EXCEPT !.op = "codes.add", !.status = "ok", !.val = h]
    /\ calls' = calls + 1
    /\ UNCHANGED <<_CODELISTS, _SCHEMAS, handles>>
    /\ UNCHANGED rulesVars
    /\ UNCHANGED schemaVars

\* a caller adds a Codelist to a Schema it was given, schema.codelists.add(codelist):
\* a Codelist it was given by default.py (test_default.py line 314 adds the one
\* that codelist() returned) or one of its own (line 334)
AddCodelist ==
    /\ calls < MaxCalls
    /\ \E h \in handles :
          /\ heap[h].kind = "Schema"
          /\ \E c \in {g \in handles : heap[g].kind = "Codelist"} \cup {CodelistNonDefault} :
                heap' = [heap EXCEPT ![h].codelists = @ \cup {c}]
          /\ last' = [NoCall EXCEPT !.op = "codelists.add", !.status = "ok", !.val = h]
    /\ calls' = calls + 1
    /\ UNCHANGED <<_CODELISTS, _SCHEMAS, handles>>
    /\ UNCHANGED rulesVars
    /\ UNCHANGED schemaVars

NextDefault ==
    \/ GetDefaultVersionIfNone
    \/ CodelistCall
    \/ CodelistsCall
    \/ ActivitySchemaCall
    \/ OrganisationSchemaCall
    \/ AddCode
    \/ AddCodelist

SpecDefault == InitDefault /\ [][NextDefault]_vars

(***************************************************************************)
(* What the properties below say of the inputs, stated on the input itself *)
(* and not through the operators above.                                    *)
(***************************************************************************)
RulesetBuilt == call.op = "Ruleset" /\ pc # "start"
RuleBuilt == call.op = "Rule" /\ pc # "start"
Evaluated(cls) == pc = "evaluated" /\ rule.obj.cls = cls /\ Len(tree) = 1

RepeatsKey(pairs) == Cardinality({pairs[i].k : i \in DOMAIN pairs}) # Len(pairs)

\* some object of the text, at one of its four levels, writes a key twice
RepeatsKeyAtBases(text) == RepeatsKey(text)
RepeatsKeyAtTypes(text) == \E b \in DOMAIN text : RepeatsKey(text[b].v)
RepeatsKeyAtWrapper(text) ==
    \E b \in DOMAIN text : \E t \in DOMAIN text[b].v : RepeatsKey(text[b].v[t].v)
RepeatsKeyInCase(text) ==
    \E b \in DOMAIN text : \E t \in DOMAIN text[b].v : \E w \in DOMAIN text[b].v[t].v :
        \E c \in DOMAIN text[b].v[t].v[w].v : RepeatsKey(text[b].v[t].v[w].v[c])
RepeatsKeyAnywhere(text) ==
    \/ RepeatsKeyAtBases(text)
    \/ RepeatsKeyAtTypes(text)
    \/ RepeatsKeyAtWrapper(text)
    \/ RepeatsKeyInCase(text)

\* the (base, type, case) entries of a text that repeats no key, as a set of places
\* the cases of a rule type object, none when it holds no `cases`
CasesAt(text, b, t) ==
    IF Has(text[b].v[t].v, "cases") THEN Get(text[b].v[t].v, "cases").val ELSE <<>>
Places(text) ==
    UNION {UNION {{<<b, t, c>> : c \in DOMAIN CasesAt(text, b, t)} : t \in DOMAIN text[b].v} :
           b \in DOMAIN text}
PlaceType(text, p) == text[p[1]].v[p[2]].k
PlaceBase(text, p) == text[p[1]].k
PlaceCase(text, p) == CasesAt(text, p[1], p[2])[p[3]]

NamesUnknownType(text) ==
    \E b \in DOMAIN text : \E t \in DOMAIN text[b].v : text[b].v[t].k \notin _VALID_RULE_TYPES

\* the declared type of every declared property the case holds
WellTyped(name, case) ==
    \A i \in DOMAIN case :
        case[i].k \in SchemaCaseProperties(name) =>
            case[i].v.kind = (IF case[i].k = "paths" THEN "list"
                              ELSE IF case[i].k = "sum" THEN "num" ELSE "str")

MissingProperties(name, case) ==
    {k \in SchemaCaseProperties(name) : \A i \in DOMAIN case : case[i].k # k}

\* an entry of a registered type whose object holds no `cases`
LacksCases(text) ==
    \E b \in DOMAIN text : \E t \in DOMAIN text[b].v :
        /\ text[b].v[t].k \in _VALID_RULE_TYPES
        /\ ~Has(text[b].v[t].v, "cases")

\* every entry of a registered type holds `cases`, and each of them is a
\* well-typed case with nothing but `condition` missing
KnownEntriesValid(text) ==
    /\ ~LacksCases(text)
    /\ \A p \in Places(text) :
          PlaceType(text, p) \in _VALID_RULE_TYPES =>
              /\ WellTyped(PlaceType(text, p), PlaceCase(text, p))
              /\ MissingProperties(PlaceType(text, p), PlaceCase(text, p)) \subseteq {"condition"}

\* the nodes of the tree, as places (element, node)
NodePlaces(dataset_tree) ==
    UNION {{<<e, n>> : n \in DOMAIN dataset_tree[e].nodes} : e \in DOMAIN dataset_tree}
NodeAt(dataset_tree, place) == dataset_tree[place[1]].nodes[place[2]]

\* the nodes of the tree at xpath_base/path
PlacesAt(dataset_tree, xpath_base, path) ==
    {place \in NodePlaces(dataset_tree) :
        /\ dataset_tree[place[1]].xpath = xpath_base
        /\ NodeAt(dataset_tree, place).path = path}

MatchCount(dataset_tree, xpath_base, path) ==
    Cardinality(PlacesAt(dataset_tree, xpath_base, path))

PathsOf(r) == Get(r.case, "paths").val.l

\* The rules whose paths address nodes as the trees hold them: a base that
\* selects the base elements, and paths that are paths of nodes. For these the
\* nodes at xpath_base/path are the nodes of that path under the base elements.
NodePaths == {kind.path : kind \in NodeKinds}
AddressesNodes(r) ==
    /\ r.xpath_base \in Bases
    /\ \A p \in DOMAIN PathsOf(r) : PathsOf(r)[p] \in NodePaths

\* the text holds one XPath base, one rule type and two cases, the same twice
TwoIdenticalCases(text) ==
    /\ Len(text) = 1 /\ Len(text[1].v) = 1 /\ Len(text[1].v[1].v) = 1
    /\ Len(CasesAt(text, 1, 1)) = 2
    /\ CasesAt(text, 1, 1)[1] = CasesAt(text, 1, 1)[2]

(***************************************************************************)
(* C1: a Ruleset built from a text whose only two cases are identical in   *)
(* rule type, xpath_base and content holds exactly one Rule.               *)
(***************************************************************************)
C1_IdenticalCasesOneRule ==
    (RulesetBuilt /\ ruleset.status = "ok" /\ TwoIdenticalCases(call.ruleset_str))
        => Cardinality(ruleset.rules) = 1

(***************************************************************************)
(* C2: the construction of a Ruleset fails, and returns no Ruleset, for    *)
(* every text in which some object, at any level, writes a key twice, also *)
(* when the text with the last value kept would make a Ruleset.            *)
(***************************************************************************)
C2_DuplicateKeyFails ==
    (RulesetBuilt /\ RepeatsKeyAnywhere(call.ruleset_str))
        => /\ pc = "failed"
           /\ ruleset.status \notin {"ok", "none"}
           /\ ruleset.rules = {}

\* the text with the last value of each key kept would make a Ruleset
LastKeptMakesRuleset(text) ==
    LET kept == json_loads(text, "dict").val
    IN  /\ Ruleset_validate_ruleset(kept, RulesetSchemaResource) = ""
        /\ Ruleset_set_rules(kept).exc = ""

C2_Witness ==
    /\ RulesetBuilt
    /\ RepeatsKeyInCase(call.ruleset_str)
    /\ ~RepeatsKeyAtBases(call.ruleset_str)
    /\ LastKeptMakesRuleset(call.ruleset_str)
    /\ pc = "failed"

(***************************************************************************)
(* C3: a text that names a rule type outside the nine makes the            *)
(* construction fail, with KeyError when its other entries are valid, and  *)
(* no Ruleset is returned, wherever the unknown entry stands.              *)
(***************************************************************************)
C3_UnknownRuleTypeFails ==
    (RulesetBuilt /\ ~RepeatsKeyAnywhere(call.ruleset_str)
                  /\ NamesUnknownType(call.ruleset_str))
        => /\ ruleset.status # "ok"
           /\ KnownEntriesValid(call.ruleset_str) => ruleset.status = "KeyError"

(***************************************************************************)
(* C4: a Rule of any of the nine types is constructed only if its case     *)
(* validates with every declared property but `condition` required: a case *)
(* missing another property is refused with ValueError, a well-typed case  *)
(* missing only `condition` is accepted, and a Ruleset that holds a case   *)
(* missing a required property fails with ValueError.                      *)
(***************************************************************************)
C4_CaseValidatedAgainstSection ==
    /\ (RuleBuilt /\ ClassName(call.cls) \in _VALID_RULE_TYPES) =>
          LET name == ClassName(call.cls)
              missing == MissingProperties(name, call.case)
          IN  /\ ~(missing \subseteq {"condition"}) => rule.status = "ValueError"
              /\ (missing \subseteq {"condition"} /\ WellTyped(name, call.case))
                    => (rule.status = "ok" /\ rule.obj.case = call.case)
              /\ rule.status = "ok" => missing \subseteq {"condition"}
    /\ (RulesetBuilt /\ ~RepeatsKeyAnywhere(call.ruleset_str)
                     /\ ~NamesUnknownType(call.ruleset_str)) =>
          /\ ~KnownEntriesValid(call.ruleset_str) => ruleset.status = "ValueError"
          /\ KnownEntriesValid(call.ruleset_str) => ruleset.status = "ok"

C4_Witness ==
    /\ RuleBuilt
    /\ call.cls = "RuleRegexMatches"
    /\ MissingProperties("regex_matches", call.case) = {"regex", "condition"}
    /\ rule.status = "ValueError"

(***************************************************************************)
(* C5: RuleNoMoreThanOne.is_valid_for(tree) is true iff at most one node   *)
(* is at xpath_base/paths[0], whatever the later entries of `paths` are.   *)
(***************************************************************************)
C5_NoMoreThanOneFirstPath ==
    (Evaluated("RuleNoMoreThanOne") /\ PathsOf(rule.obj) # <<>> /\ AddressesNodes(rule.obj))
        => result = (IF MatchCount(tree[1], rule.obj.xpath_base, PathsOf(rule.obj)[1]) <= 1
                     THEN "True" ELSE "False")

(***************************************************************************)
(* C6: RuleAtLeastOne.is_valid_for(tree) is true iff at least one node is  *)
(* at xpath_base/paths[0], whatever the later entries of `paths` are.      *)
(***************************************************************************)
C6_AtLeastOneFirstPath ==
    (Evaluated("RuleAtLeastOne") /\ PathsOf(rule.obj) # <<>> /\ AddressesNodes(rule.obj))
        => result = (IF MatchCount(tree[1], rule.obj.xpath_base, PathsOf(rule.obj)[1]) >= 1
                     THEN "True" ELSE "False")

MatchedPlaces(r, dataset_tree) ==
    UNION {PlacesAt(dataset_tree, r.xpath_base, PathsOf(r)[p]) : p \in DOMAIN PathsOf(r)}

Forbidden == {"/", "&", "|", "?"}
\* the two ways the cases write the regex of the permitted characters
PermittedRegexes == {"[^/&|?]+", "[^\\/\\&\\|\\?]+"}
HasForbidden(chars) == \E i \in DOMAIN chars : chars[i] \in Forbidden

(***************************************************************************)
(* C7: RuleRegexMatches with the regex [^/&|?]+ is true for a node whose   *)
(* text is made of permitted characters only and false for a node whose    *)
(* text holds a forbidden character at any position.                       *)
(***************************************************************************)
C7_RegexWholeText ==
    (/\ Evaluated("RuleRegexMatches")
     /\ Get(rule.obj.case, "regex").val.s \in PermittedRegexes
     /\ Cardinality(MatchedPlaces(rule.obj, tree[1])) = 1)
        => \A place \in MatchedPlaces(rule.obj, tree[1]) :
              ~NodeAt(tree[1], place).text.is_none =>
                  result = (IF HasForbidden(NodeAt(tree[1], place).text.chars)
                               \/ NodeAt(tree[1], place).text.chars = <<>>
                            THEN "False" ELSE "True")

(***************************************************************************)
(* C8: RuleRegexMatches.is_valid_for is false whenever some node at some   *)
(* entry of `paths`, at any position among the nodes, has a text the regex *)
(* does not match.                                                         *)
(***************************************************************************)
C8_RegexEveryNode ==
    (/\ Evaluated("RuleRegexMatches")
     /\ Get(rule.obj.case, "regex").val.s \in PermittedRegexes
     /\ \A place \in MatchedPlaces(rule.obj, tree[1]) : ~NodeAt(tree[1], place).text.is_none
     /\ \E place \in MatchedPlaces(rule.obj, tree[1]) :
           NodeAt(tree[1], place).text.chars = <<>>
           \/ NodeAt(tree[1], place).text.chars[1] \in Forbidden)
        => result = "False"

\* the number a text of digits writes
Digit(c) ==
    CASE c = "0" -> 0 [] c = "1" -> 1 [] c = "2" -> 2 [] c = "3" -> 3 [] c = "4" -> 4
      [] c = "5" -> 5 [] c = "6" -> 6 [] c = "7" -> 7 [] c = "8" -> 8 [] c = "9" -> 9
RECURSIVE Number(_)
Number(chars) ==
    IF chars = <<>> THEN 0
    ELSE 10 * Number(SubSeq(chars, 1, Len(chars) - 1)) + Digit(chars[Len(chars)])

RECURSIVE SumOver(_, _)
SumOver(places, dataset_tree) ==
    IF places = {} THEN 0
    ELSE LET place == CHOOSE x \in places : TRUE
         IN  Number(NodeAt(dataset_tree, place).text.chars)
               + SumOver(places \ {place}, dataset_tree)

(***************************************************************************)
(* C9: RuleSum.is_valid_for(tree) is true iff the values at all the listed *)
(* paths sum to the case's `sum`: with 100, 60 and 40 give true, 60 and 30 *)
(* give false.                                                             *)
(***************************************************************************)
C9_SumEqualsTarget ==
    Evaluated("RuleSum")
        => result = (IF SumOver(MatchedPlaces(rule.obj, tree[1]), tree[1])
                          = Get(rule.obj.case, "sum").val.n
                     THEN "True" ELSE "False")

\* the dates (as numbers) of the nodes at xpath_base/path
DatesAt(dataset_tree, xpath_base, path) ==
    {Number(NodeAt(dataset_tree, place).text.chars) :
        place \in PlacesAt(dataset_tree, xpath_base, path)}

(***************************************************************************)
(* C10: RuleDateOrder.is_valid_for(tree) with the paths (earlier, later)   *)
(* is true when the earlier date precedes the later one and false          *)
(* otherwise, and with a node missing it still returns a boolean.          *)
(***************************************************************************)
C10_DateOrder ==
    (Evaluated("RuleDateOrder") /\ Len(PathsOf(rule.obj)) = 2)
        => LET earlier == DatesAt(tree[1], rule.obj.xpath_base, PathsOf(rule.obj)[1])
               later == DatesAt(tree[1], rule.obj.xpath_base, PathsOf(rule.obj)[2])
           IN  /\ result \in {"True", "False"}
               /\ (Cardinality(earlier) = 1 /\ Cardinality(later) = 1)
                     => result = (IF \A d1 \in earlier : \A d2 \in later : d1 < d2
                                  THEN "True" ELSE "False")


\* a text the regex [^/&|?]+ matches under match and under fullmatch alike
AllPermitted(chars) == chars # <<>> /\ ~HasForbidden(chars)

(***************************************************************************)
(* C11: RuleRegexNoMatches.is_valid_for(tree) is true when no node at any  *)
(* entry of `paths` has a text the regex matches, and false as soon as one *)
(* such node has a text the regex matches.                                 *)
(***************************************************************************)
C11_RegexNoMatches ==
    (/\ Evaluated("RuleRegexNoMatches")
     /\ Get(rule.obj.case, "regex").val.s \in PermittedRegexes)
        => /\ MatchedPlaces(rule.obj, tree[1]) = {} => result = "True"
           /\ (\E place \in MatchedPlaces(rule.obj, tree[1]) :
                  /\ ~NodeAt(tree[1], place).text.is_none
                  /\ AllPermitted(NodeAt(tree[1], place).text.chars))
                 => result = "False"

(***************************************************************************)
(* C12: for a constructed Rule of any of the nine types and any tree,      *)
(* is_valid_for(tree) raises nothing and returns True or False, also when  *)
(* no node is at the rule's paths and when a node there has no text.       *)
(***************************************************************************)
C12_EvaluationReturnsBoolean ==
    (pc = "evaluated" /\ Len(tree) = 1) => result \in {"True", "False"}

VersionBuilt == call.op = "Version" /\ pc # "start"

\* the grammar of version numbers, read off the string: 1.0[1-9], or a major
\* part (1 and one or more digits, or 2-9 and any digits), a dot, and a minor
\* part (0, then 1-9, then any digits)
AllDigits(chars) == \A i \in DOMAIN chars : chars[i] \in AsciiDigits
IsMajor(chars) ==
    /\ chars # <<>>
    /\ AllDigits(chars)
    /\ chars[1] # "0"
    /\ chars[1] = "1" => Len(chars) >= 2
IsMinor(chars) ==
    /\ Len(chars) >= 2
    /\ AllDigits(chars)
    /\ chars[1] = "0"
    /\ chars[2] # "0"
InGrammar(chars) ==
    \/ chars \in {<<"1", ".", "0", d>> : d \in AsciiDigits \ {"0"}}
    \/ \E k \in DOMAIN chars :
          /\ chars[k] = "."
          /\ IsMajor(SubSeq(chars, 1, k - 1))
          /\ IsMinor(SubSeq(chars, k + 1, Len(chars)))

(***************************************************************************)
(* C13: Version(s) for a string s succeeds iff s is in the grammar of      *)
(* version numbers, and fails with ValueError for every other string.      *)
(***************************************************************************)
C13_VersionGrammar ==
    (VersionBuilt /\ argument.type = "str")
        => version.status = (IF InGrammar(argument.chars) THEN "ok" ELSE "ValueError")

(***************************************************************************)
(* C14: Version(x) for an x that is not a string fails with TypeError,     *)
(* never with ValueError and never with success, whatever x writes.        *)
(***************************************************************************)
C14_NonStringTypeError ==
    (VersionBuilt /\ argument.type # "str")
        => /\ version.status = "TypeError"
           /\ pc = "failed"

\* a float that writes a version number was refused for its type
C14_Witness ==
    /\ VersionBuilt
    /\ argument.type = "float"
    /\ InGrammar(argument.chars)
    /\ version.status = "TypeError"

(***************************************************************************)
(* C15: a string made of a version number and one more character, before   *)
(* or after it, is refused with ValueError unless the whole string is      *)
(* itself in the grammar.                                                  *)
(***************************************************************************)
C15_VersionAnchored ==
    (/\ VersionBuilt
     /\ argument.type = "str"
     /\ argument.chars # <<>>
     /\ \/ InGrammar(Tail(argument.chars))
        \/ InGrammar(SubSeq(argument.chars, 1, Len(argument.chars) - 1))
     /\ ~InGrammar(argument.chars))
        => version.status = "ValueError"

(***************************************************************************)
(* C16: a Version built from the string s holds s, unchanged, in one of    *)
(* its attributes.                                                         *)
(***************************************************************************)
C16_VersionKeepsString ==
    (VersionBuilt /\ version.status = "ok")
        => \E i \in DOMAIN version.attributes :
              version.attributes[i].v = argument.chars

\* the definition breaks the meta-schema: an entry of a registered type holds no
\* `cases`, or a case with a declared property of another type than the declared one
FailsMetaSchema(text) ==
    \/ LacksCases(text)
    \/ \E p \in Places(text) :
          /\ PlaceType(text, p) \in _VALID_RULE_TYPES
          /\ ~WellTyped(PlaceType(text, p), PlaceCase(text, p))

\* the first case set_rules would meet, and its rule type
FirstPlace(text) == <<1, 1, 1>>
HasFirstPlace(text) == FirstPlace(text) \in Places(text)

(***************************************************************************)
(* C17: a definition that breaks the meta-schema makes Ruleset(...) fail   *)
(* with ValueError before any Rule constructor is called, also when the    *)
(* first case of the definition is one set_rules would build a Rule from   *)
(* or would refuse with another exception.                                 *)
(***************************************************************************)
C17_ValidatedBeforeRules ==
    (/\ RulesetBuilt
     /\ ~RepeatsKeyAnywhere(call.ruleset_str)
     /\ FailsMetaSchema(call.ruleset_str))
        => /\ pc = "failed"
           /\ ruleset.status = "ValueError"
           /\ ruleset.constructed = 0

\* a definition that breaks the meta-schema in a later case, and whose first case
\* is of an unregistered type, failed with ValueError and built no Rule
C17_Witness ==
    /\ RulesetBuilt
    /\ ~RepeatsKeyAnywhere(call.ruleset_str)
    /\ FailsMetaSchema(call.ruleset_str)
    /\ HasFirstPlace(call.ruleset_str)
    /\ PlaceType(call.ruleset_str, FirstPlace(call.ruleset_str)) \notin _VALID_RULE_TYPES
    /\ ruleset.status = "ValueError"
    /\ ruleset.constructed = 0

(***************************************************************************)
(* C18: constructing a Rule whose name is unset (the base class itself) or *)
(* is a name the meta-schema does not hold fails with AttributeError, not  *)
(* with the ValueError of an invalid case, whether the case is valid or    *)
(* not.                                                                    *)
(***************************************************************************)
C18_BadNameAttributeError ==
    (RuleBuilt /\ call.cls \in {"Rule", "RuleUnregistered"})
        => /\ pc = "failed"
           /\ rule.status = "AttributeError"

\* the number of nodes at xpath_base/path in one base element of the tree
MatchCountIn(dataset_tree, e, xpath_base, path) ==
    Cardinality({place \in PlacesAt(dataset_tree, xpath_base, path) : place[1] = e})

(***************************************************************************)
(* C19: an atleast_one rule with the paths sector and transaction/sector   *)
(* under //iati-activity is false for an activity that has neither and     *)
(* true for an activity that has a node at one of the two, also when it is *)
(* only at transaction/sector.                                             *)
(***************************************************************************)
C19_SectorOrTransactionSector ==
    (/\ Evaluated("RuleAtLeastOne")
     /\ rule.obj.xpath_base = "//iati-activity"
     /\ PathsOf(rule.obj) = <<"sector", "transaction/sector">>
     /\ Len(tree[1]) = 1)
        => result = (IF MatchCount(tree[1], "//iati-activity", "sector")
                          + MatchCount(tree[1], "//iati-activity", "transaction/sector") >= 1
                     THEN "True" ELSE "False")

(***************************************************************************)
(* C20: with several iati-activity elements in the document, a rule rooted *)
(* at //iati-activity is checked within each of them: atleast_one is false *)
(* when one activity has no node at the path though another has, and       *)
(* no_more_than_one counts the nodes of each activity, not of the          *)
(* document.                                                               *)
(***************************************************************************)
C20_WithinEachBaseElement ==
    (/\ pc = "evaluated"
     /\ Len(tree) = 1
     /\ Len(tree[1]) >= 2
     /\ rule.obj.cls \in {"RuleAtLeastOne", "RuleNoMoreThanOne"}
     /\ Len(PathsOf(rule.obj)) = 1)
        => result =
             (IF \A e \in DOMAIN tree[1] :
                    LET count == MatchCountIn(tree[1], e, rule.obj.xpath_base,
                                              PathsOf(rule.obj)[1])
                    IN  IF rule.obj.cls = "RuleAtLeastOne" THEN count >= 1 ELSE count <= 1
              THEN "True" ELSE "False")

\* what the properties of default.py say of the arguments
KnownVersions == {STANDARD_VERSIONS[i] : i \in DOMAIN STANDARD_VERSIONS}
ResolvedVersion(ver) == IF ver = None THEN STANDARD_VERSION_LATEST ELSE ver
InvalidVersion(ver) == ver # None /\ ver \notin KnownVersions
SchemaCalls == {"activity_schema", "organisation_schema"}
VersionedCalls ==
    {"get_default_version_if_none", "codelists", "codelist"} \cup SchemaCalls

(***************************************************************************)
(* C21: whatever calls of codelist and codelists came before, and whatever *)
(* Codes the callers added to the Codelists they were given, the Codelist  *)
(* that codelist(name, version) returns and every Codelist of the          *)
(* dictionary that codelists(version) returns hold the codes of the file.  *)
(***************************************************************************)
C21_DefaultCodelistsUnmodified ==
    /\ (last.op = "codelist" /\ last.status = "ok")
          => heap[last.val].codes = FileCodes(last.name, ResolvedVersion(last.ver))
    /\ (last.op = "codelists" /\ last.status = "ok")
          => \A name \in DictKeys(_CODELISTS[ResolvedVersion(last.ver)]) :
                heap[_CODELISTS[ResolvedVersion(last.ver)].d[name]].codes
                    = FileCodes(name, ResolvedVersion(last.ver))

(***************************************************************************)
(* C22: the Schema that activity_schema or organisation_schema returns,    *)
(* populated or not, has a `codelists` set of its original size (every     *)
(* default Codelist when populated, none when not), also after a caller    *)
(* added a Codelist to a Schema returned earlier.                          *)
(***************************************************************************)
C22_DefaultSchemasUnmodified ==
    (last.op \in SchemaCalls /\ last.status = "ok")
        => Cardinality(heap[last.val].codelists)
              = (IF last.populate THEN Cardinality(CodelistNames) ELSE 0)

\* a Schema returned earlier for the same root holds one Codelist more than the
\* Schema just returned: the Codelist that codelist() returned to a caller, who
\* added it
C22_Witness ==
    /\ last.op \in SchemaCalls
    /\ last.status = "ok"
    /\ \E h \in handles \ {last.val} :
          /\ heap[h].kind = "Schema"
          /\ heap[h].name = heap[last.val].name
          /\ \E c \in heap[h].codelists \cap handles :
                /\ heap[c].kind = "Codelist"
                /\ c \notin heap[last.val].codelists
                /\ \A v \in VersionKeys : c \notin DictValues(_CODELISTS[v])
          /\ Cardinality(heap[h].codelists) = Cardinality(heap[last.val].codelists) + 1

(***************************************************************************)
(* C23: a call of get_default_version_if_none, codelists, codelist,        *)
(* activity_schema or organisation_schema with a version that is neither   *)
(* None nor a version of the Standard raises ValueError and leaves both    *)
(* caches as they were, with no entry for that version.                    *)
(***************************************************************************)
C23_InvalidVersionRaises ==
    [][(/\ calls' = calls + 1
        /\ last'.op \in VersionedCalls
        /\ InvalidVersion(last'.ver))
          => /\ last'.status = "ValueError"
             /\ _CODELISTS' = _CODELISTS
             /\ _SCHEMAS' = _SCHEMAS
             /\ ~_CODELISTS'[last'.ver].has
             /\ \A k \in PopulationKeys : ~_SCHEMAS'[<<last'.ver, k>>].has]_vars

\* with Codelists and a Schema in the caches, a call with a version that is not
\* one of the Standard's was refused
C23_Witness ==
    /\ last.op \in VersionedCalls \ {"get_default_version_if_none"}
    /\ InvalidVersion(last.ver)
    /\ last.status = "ValueError"
    /\ \E v \in VersionKeys : _CODELISTS[v].has
    /\ \E k \in VersionKeys \X PopulationKeys : _SCHEMAS[k].has

(***************************************************************************)
(* C24: the XPath a Rule resolves for a relative path p is its xpath_base, *)
(* one "/" and p, with neither part changed (a trailing or leading "/" is  *)
(* kept, an empty part too), and resolving leaves the Rule's xpath_base    *)
(* and case as they were given to the constructor.                         *)
(***************************************************************************)
C24_ExtractXpathCase ==
    pc = "extracted"
        => /\ full_path = call.xpath_base \o "/" \o relative_path
           /\ Len(full_path) = Len(call.xpath_base) + 1 + Len(relative_path)
           /\ rule.obj.xpath_base = call.xpath_base
           /\ rule.obj.case = call.case

\* a base that ends in "/" and a path that begins with "/" were joined as they are
C24_Witness ==
    /\ pc = "extracted"
    /\ call.xpath_base = "//iati-activity/"
    /\ relative_path = "/sector"
    /\ full_path = "//iati-activity///sector"

\* the first node the loops of RuleRegexMatches meet: at the first entry of
\* `paths` that has a node, the first node in document order
FirstPathWithNode(r, dataset_tree) ==
    CHOOSE p \in DOMAIN PathsOf(r) :
        /\ PlacesAt(dataset_tree, r.xpath_base, PathsOf(r)[p]) # {}
        /\ \A q \in DOMAIN PathsOf(r) :
              q < p => PlacesAt(dataset_tree, r.xpath_base, PathsOf(r)[q]) = {}
FirstPlaceAt(dataset_tree, xpath_base, p) ==
    CHOOSE place \in PlacesAt(dataset_tree, xpath_base, p) :
        \A other \in PlacesAt(dataset_tree, xpath_base, p) :
            \/ place[1] < other[1]
            \/ place[1] = other[1] /\ place[2] <= other[2]
FirstNode(r, dataset_tree) ==
    NodeAt(dataset_tree,
           FirstPlaceAt(dataset_tree, r.xpath_base,
                        PathsOf(r)[FirstPathWithNode(r, dataset_tree)]))

(***************************************************************************)
(* C25: RuleRegexMatches.is_valid_for returns what matching the first node *)
(* gives, the first in the order of `paths` and then of the document;      *)
(* whatever the later nodes hold, at the same path or a later one, the     *)
(* result is the same.                                                     *)
(***************************************************************************)
C25_FirstNodeDecides ==
    (/\ Evaluated("RuleRegexMatches")
     /\ Get(rule.obj.case, "regex").val.s \in PermittedRegexes
     /\ AddressesNodes(rule.obj)
     /\ MatchedPlaces(rule.obj, tree[1]) # {}
     /\ ~FirstNode(rule.obj, tree[1]).text.is_none)
        => result = (IF /\ FirstNode(rule.obj, tree[1]).text.chars # <<>>
                        /\ FirstNode(rule.obj, tree[1]).text.chars[1] \notin Forbidden
                     THEN "True" ELSE "False")

\* what a Rule is of a Ruleset's entry: its name, its base and its case
RuleTriple(r) == <<r.name, r.xpath_base, r.case>>

(***************************************************************************)
(* C26: the rules of a Ruleset that was constructed are the Rules of its   *)
(* definition's cases and no others: every (xpath_base, rule_type, case)   *)
(* of the definition has a Rule whose name is the rule type, whose         *)
(* xpath_base is the key and whose case is the entry, and every Rule in    *)
(* rules is of such a case.                                                *)
(***************************************************************************)
C26_RulesAreTheCases ==
    (pc = "constructed" /\ call.op = "Ruleset")
        => /\ {RuleTriple(r) : r \in ruleset.rules}
                = {<<PlaceType(call.ruleset_str, p), PlaceBase(call.ruleset_str, p),
                     PlaceCase(call.ruleset_str, p)>> : p \in Places(call.ruleset_str)}
           /\ \A r \in ruleset.rules : r.name \in _VALID_RULE_TYPES

\* a Ruleset of two rule types, one of them regex_matches, was constructed
C26_Witness ==
    /\ pc = "constructed"
    /\ call.op = "Ruleset"
    /\ \E r \in ruleset.rules : r.name = "regex_matches"
    /\ \E r \in ruleset.rules : r.name = "atleast_one"

\* the definitions whose validation is observed
ProbeDefinitions ==
    {Ruleset_loads(t).val : t \in {u \in SchemaRulesetTexts : Ruleset_loads(u).ok}}

(***************************************************************************)
(* C27: constructing Rules, alone or within a Ruleset, leaves the          *)
(* meta-schema obtained from the default-data provider as the resource     *)
(* declares it, so after any number of constructions every definition      *)
(* passes or fails the validation of the whole Ruleset as it did before    *)
(* them, whichever dict the provider returns to validate_ruleset, and the  *)
(* section a Rule of any type validates its case against is the same.      *)
(***************************************************************************)
C27_MetaSchemaUnchanged ==
    (pc \in {"constructed", "failed"} /\ call.op \in {"Rule", "Ruleset"})
        => /\ meta_schema = RulesetSchemaResource
           /\ \A keeps \in BOOLEAN : \A definition \in ProbeDefinitions :
                 Ruleset_validate_ruleset(definition, ruleset_schema(keeps, meta_schema))
                    = Ruleset_validate_ruleset(definition, RulesetSchemaResource)
           /\ \A cls \in Classes \ {"Rule"} : \A keeps \in BOOLEAN :
                 Rule__ruleset_schema_section_assigns(
                     ClassName(cls), ruleset_schema(keeps, meta_schema))[ClassName(cls)]
                    = Rule__ruleset_schema_section(ClassName(cls)).val.required

=============================================================================
